---- MODULE Spec2Model ----
(***************************************************************************)
(* Chatbot API: the conversation store (Redis record + per-user sorted     *)
(* set) and the chat-completion handler (streaming and buffered).          *)
(*                                                                         *)
(* Store handlers are asynchronous: every `await redis.<op>` is a point at *)
(* which other requests run.  Each action below is one such segment: the   *)
(* JavaScript that runs up to and including one Redis command.             *)
(***************************************************************************)
EXTENDS Integers, Sequences, FiniteSets, TLC

\* ---- bounds ------------------------------------------------------------
MaxTime == 2         \* the clock stops after this many ticks
MaxChunks == 3       \* longest backend run, in incremental units

\* ---- program constants -------------------------------------------------
\* { ex: 30 * 24 * 60 * 60 }: 30 days, in clock ticks of 15 days
TTL == 2

Users == {"u1", "u2"}
NoUser == ""                       \* getCurrentUserId() found nobody (falsy)
ConvIds == {"c1", "c2"}            \* the ids nanoid() can hand out
Reqs == {1, 2}                     \* the requests of a run that go past
                                   \* their first Redis command

None == <<>>                       \* an optional field that is undefined
Some(x) == <<x>>
Null == [null |-> TRUE]            \* JavaScript null
NoResp == [status |-> 0]

VARIABLES
  now,          \* wall clock (Date.now(), new Date().toISOString())
  redis,        \* TRUE iff the redis client of @/lib/redis/config is set
  records,      \* Redis strings: key -> [val, exp]
  zsets,        \* Redis sorted sets: key -> [members, hasTTL, exp]
  allocated,    \* ids nanoid() has already returned
  req,          \* per request slot: handler position and locals
  deletedSince, \* history: record keys deleted and not written since
  lastAck,      \* history: the latest append that was answered with success
  lreq,         \* the list request (GET /api/chatbot/conversations)
  chatBody,     \* chat request: the JSON body
  cookie,       \* chat request: the selectedModel cookie
  chatUser,     \* chat request: what getCurrentUserId() resolves to
  backend,      \* the backend run: units, outcome
  sResp,        \* streaming request: the HTTP response
  sCall,        \* streaming request: the arguments given to streamText
  bCall,        \* buffered request: the arguments given to streamText
  sPhase,       \* streaming request: position in the execute callback
  sPos,         \* streaming request: units received from the backend
  written,      \* streaming request: events passed to dataStream.writeData
  bPhase,       \* buffered request: position
  bPos,         \* buffered request: units received from the backend
  bText,        \* buffered request: text accumulated by result.text
  bResp         \* buffered request: the HTTP response

storeVars == <<now, redis, records, zsets, allocated, req,
              deletedSince, lastAck, lreq>>
chatVars == <<chatBody, cookie, chatUser, backend, sResp, sCall, bCall,
             sPhase, sPos, written, bPhase, bPos, bText, bResp>>
vars == <<now, redis, records, zsets, allocated, req, deletedSince,
          lastAck, lreq,
          chatBody, cookie, chatUser, backend, sResp, sCall, bCall,
          sPhase, sPos, written, bPhase, bPos, bText, bResp>>

\* ---- keys ----------------------------------------------------------------
getConversationKeyShared(userId, conversationId) ==
  <<"conversation", conversationId>>

getConversationKey(userId, conversationId) ==
  <<"conversation", userId, conversationId>>

getUserConversationsKey(userId) == <<"conversations", userId>>

\* ---- Redis commands ----------------------------------------------------
Remove(f, k) == [x \in (DOMAIN f) \ {k} |-> f[x]]

\* SET key val EX ttl
RedisSetKeepTTL(recs, key, val, t) ==
  (key :> [val |-> val,
           exp |-> IF key \in DOMAIN recs THEN recs[key].exp ELSE t + TTL])
    @@ recs

RedisSet(recs, key, val, t) == (key :> [val |-> val, exp |-> t + TTL]) @@ recs

\* DEL key: the number of keys removed
RedisDelCount(recs, key) == IF key \in DOMAIN recs THEN 1 ELSE 0

RedisDel(recs, key) == Remove(recs, key)

\* ZADD key score member: creates the set (without a TTL) when it is absent,
\* keeps the TTL of an existing set
RedisZadd(zs, key, score, member) ==
  IF key \in DOMAIN zs
  THEN [zs EXCEPT ![key].members = (member :> score) @@ @]
  ELSE (key :> [members |-> (member :> score), hasTTL |-> FALSE, exp |-> 0])
       @@ zs

\* EXPIRE key ttl
RedisExpire(zs, key, t) ==
  IF key \in DOMAIN zs
  THEN [zs EXCEPT ![key].hasTTL = TRUE, ![key].exp = t + TTL]
  ELSE zs

\* ZREM key member: an emptied set is removed from the keyspace
RedisZrem(zs, key, member) ==
  IF key \notin DOMAIN zs THEN zs
  ELSE IF (DOMAIN zs[key].members) \ {member} = {} THEN Remove(zs, key)
  ELSE [zs EXCEPT ![key].members = Remove(@, member)]

\* GET key
RedisGet(recs, key) == IF key \in DOMAIN recs THEN recs[key].val ELSE Null

\* ZCARD key
RedisZcard(zs, key) ==
  IF key \in DOMAIN zs THEN Cardinality(DOMAIN zs[key].members) ELSE 0

Min(a, b) == IF a < b THEN a ELSE b
Max(a, b) == IF a > b THEN a ELSE b

\* the lexicographic order of the ids
IdRank(c) == IF c = "c1" THEN 1 ELSE 2

\* the members of a sorted set from the highest score to the lowest, members
\* of equal score in reverse lexicographic order
RECURSIVE RevSorted(_)
RevSorted(members) ==
  IF DOMAIN members = {} THEN <<>>
  ELSE LET top == CHOOSE m \in DOMAIN members :
                    \A o \in DOMAIN members :
                      \/ members[m] > members[o]
                      \/ members[m] = members[o] /\ IdRank(m) >= IdRank(o)
       IN <<top>> \o RevSorted(Remove(members, top))

\* ZREVRANGE key start stop: zero-based inclusive ranks; a negative rank
\* counts from the end of the set (-1 is the last member)
RedisZrevrange(zs, key, start, stop) ==
  LET all == IF key \in DOMAIN zs THEN RevSorted(zs[key].members) ELSE <<>>
      n == Len(all)
      from == IF start < 0 THEN Max(n + start, 0) ELSE start
      to == IF stop < 0 THEN n + stop ELSE Min(stop, n - 1)
  IN IF from > to \/ from >= n THEN <<>> ELSE SubSeq(all, from + 1, to + 1)

\* key expiry at time t
ExpireRecords(recs, t) ==
  [k \in {x \in DOMAIN recs : recs[x].exp > t} |-> recs[k]]

ExpireZsets(zs, t) ==
  [k \in {x \in DOMAIN zs : ~zs[x].hasTTL \/ zs[x].exp > t} |-> zs[k]]

\* ---- helpers of models/route.ts (conversation by id) ----------------------
getConversationUpsert(userId, conversationId) ==
  IF getConversationKey(userId, conversationId) \in DOMAIN records
  THEN records[getConversationKey(userId, conversationId)].val
  ELSE [id |-> conversationId, title |-> "", messages |-> <<>>,
        model |-> "gpt-4o-mini", createdAt |-> now, updatedAt |-> now,
        userId |-> userId]

getConversation(userId, conversationId) ==
  IF ~redis THEN Null
  ELSE IF getConversationKey(userId, conversationId) \in DOMAIN records
       THEN records[getConversationKey(userId, conversationId)].val
       ELSE Null

\* conversation.messages.push(newMessage)
unshiftMessage(conversation, newMessage) ==
  [conversation EXCEPT !.messages = <<newMessage>> \o @]

pushMessage(conversation, newMessage) ==
  [conversation EXCEPT !.messages = Append(@, newMessage)]

\* saveConversation up to its redis.set
saveConversationMerge(recs, userId, conversation, t) ==
  LET key == getConversationKey(userId, conversation.id)
      old == IF key \in DOMAIN recs THEN recs[key].val.messages ELSE <<>>
      n == Len(conversation.messages)
      merged == IF n > 0 /\ Len(old) >= n
                THEN old \o <<conversation.messages[n]>>
                ELSE conversation.messages
  IN RedisSet(recs, key, [conversation EXCEPT !.messages = merged], t)

saveConversationSet(recs, userId, conversation, t) ==
  RedisSet(recs, getConversationKey(userId, conversation.id), conversation, t)

\* ---- request schemas ------------------------------------------------------
\* AddMessageSchema
AddMessageSchema(body) ==
  body.role \in {"user", "assistant"}

MessageRoles == {"user", "assistant", "system"}

\* UpdateConversationSchema
UpdateConversationSchema(body) ==
  /\ body.title # None => Len(body.title[1]) >= 1 /\ Len(body.title[1]) <= 100
  /\ body.messages # None =>
       \A i \in 1..Len(body.messages[1]) :
         body.messages[1][i].role \in MessageRoles

\* CreateConversationSchema
CreateConversationSchema(body) ==
  Len(body.title) >= 1 /\ Len(body.title) <= 100

\* a request body that is not JSON: req.json() rejects with a SyntaxError
MalformedJson == [syntaxError |-> TRUE]

\* ---- responses -------------------------------------------------------------
Unauthorized == [status |-> 401, success |-> FALSE, error |-> "Unauthorized"]
InvalidFormat ==
  [status |-> 400, success |-> FALSE, error |-> "Invalid request format"]
ConversationNotFound ==
  [status |-> 404, success |-> FALSE, error |-> "Conversation not found"]
Success(data) == [status |-> 200, success |-> TRUE, data |-> data]
\* the catch of a handler: any error but a ZodError
Failed(error) == [status |-> 500, success |-> FALSE, error |-> error]

IdleReq ==
  [op |-> "none", pc |-> "idle", user |-> NoUser, id |-> "",
   conv |-> Null, read |-> Null, absent |-> FALSE, added |-> Null,
   ids |-> <<>>, count |-> 0, wrote |-> FALSE, sawDeleted |-> FALSE,
   asked |-> <<>>, before |-> Null, json |-> Null, called |-> FALSE,
   gone |-> "",
   long |-> FALSE, ticked |-> FALSE,
   resp |-> NoResp]

\* A response is handed to the caller before anything else happens: it is
\* visible in one state and the slot is then released (Return).
NoResponsePending ==
  /\ \A q \in Reqs : req[q].pc # "done"
  /\ lreq.pc # "done"

\* A request is received in the first free slot.  A request answered in its
\* first step (401, 400, 404, a plain read) leaves no trace and frees its slot
\* again; a request that goes further occupies its slot for good.
Free(r) ==
  /\ NoResponsePending
  /\ req[r].pc = "idle"
  /\ \A q \in Reqs : q < r => req[q].pc # "idle"

Respond(r, op, userId, id, response) ==
  [IdleReq EXCEPT !.op = op, !.pc = "done", !.user = userId, !.id = id,
                  !.resp = response]

\* history: a write that lands while the list request is between its reads
\* (recs, zs: the store after the step)
Overlap(recs, zs) ==
  IF lreq.pc \in {"list_get", "list_zcard"}
     /\ (recs # records \/ zs # zsets)
  THEN [lreq EXCEPT !.clean = FALSE]
  ELSE lreq

\* ---- GET /api/chatbot/conversations/[id] ----------------------------------
GET_conversation_lateAuth(r, userId, conversationId) ==
  /\ Free(r)
  /\ req' = [req EXCEPT ![r] =
       LET conversation == getConversation(userId, conversationId)
           base == [IdleReq EXCEPT
                      !.sawDeleted =
                         getConversationKey(userId, conversationId)
                           \in deletedSince,
                      !.op = "GET", !.pc = "done", !.user = userId,
                      !.id = conversationId, !.called = redis]
       IN IF conversation = Null
          THEN [base EXCEPT !.resp = IF userId = NoUser THEN Unauthorized
                                     ELSE ConversationNotFound]
          ELSE [base EXCEPT
                  !.resp = Success([conversation |-> conversation])]]
  /\ UNCHANGED <<now, redis, records, zsets, allocated, deletedSince>>
  /\ lreq' = Overlap(records', zsets')
  /\ UNCHANGED <<lastAck, chatVars>>

GET_conversation(r, userId, conversationId) ==
  /\ Free(r)
  /\ req' = [req EXCEPT ![r] =
       IF userId = NoUser
       THEN Respond(r, "GET", userId, "", Unauthorized)
       ELSE LET conversation == getConversation(userId, conversationId)
                base == [IdleReq EXCEPT
                           !.sawDeleted =
                              getConversationKey(userId, conversationId)
                                \in deletedSince,
                           !.op = "GET", !.pc = "done", !.user = userId,
                           !.id = conversationId, !.called = redis]
            IN IF conversation = Null
               THEN [base EXCEPT !.resp = ConversationNotFound]
               ELSE [base EXCEPT
                       !.resp = Success([conversation |-> conversation])]]
  /\ UNCHANGED <<now, redis, records, zsets, allocated, deletedSince>>
  /\ lreq' = Overlap(records', zsets')
  /\ UNCHANGED <<lastAck, chatVars>>

\* ---- PATCH /api/chatbot/conversations/[id]: up to getConversation and the
\* ---- push of the new message ----------------------------------------------
PATCH_get(r, userId, conversationId, body) ==
  /\ Free(r)
  /\ req' = [req EXCEPT ![r] =
       IF userId = NoUser
       THEN [Respond(r, "PATCH", userId, "", Unauthorized)
               EXCEPT !.json = body]
       ELSE IF body = MalformedJson
       THEN [Respond(r, "PATCH", userId, "", Failed("Failed to add message"))
               EXCEPT !.json = body]
       ELSE IF ~AddMessageSchema(body)
       THEN [Respond(r, "PATCH", userId, "", InvalidFormat)
               EXCEPT !.json = body]
       ELSE LET conversation == getConversation(userId, conversationId)
                newMessage == [role |-> body.role, content |-> body.content,
                               timestamp |-> now]
                base == [IdleReq EXCEPT
                           !.op = "PATCH", !.user = userId,
                           !.id = conversationId,
                           !.json = body, !.called = redis,
                           !.absent =
                              getConversationKey(userId, conversationId)
                                \notin DOMAIN records]
            IN IF conversation = Null
               THEN [base EXCEPT !.pc = "done",
                                 !.resp = ConversationNotFound]
               ELSE [base EXCEPT !.pc = "save_set", !.long = TRUE,
                                 !.read = conversation,
                                 !.added = newMessage,
                                 !.conv = pushMessage(conversation,
                                                      newMessage)]]
  /\ UNCHANGED <<now, redis, records, zsets, allocated, deletedSince>>
  /\ lreq' = Overlap(records', zsets')
  /\ UNCHANGED <<lastAck, chatVars>>

\* messages.map(msg => ({...msg, timestamp: msg.timestamp || now}))
StampMessagesReversed(messages, t) ==
  [i \in 1..Len(messages) |->
     LET msg == messages[Len(messages) + 1 - i]
     IN [role |-> msg.role, content |-> msg.content,
         timestamp |-> IF msg.timestamp = None THEN t
                       ELSE msg.timestamp[1]]]

StampMessages(messages, t) ==
  [i \in 1..Len(messages) |->
     [role |-> messages[i].role, content |-> messages[i].content,
      timestamp |-> IF messages[i].timestamp = None THEN t
                    ELSE messages[i].timestamp[1]]]

\* ---- PUT /api/chatbot/conversations/[id]: up to getConversation and the
\* ---- update of the local copy ---------------------------------------------
PUT_get(r, userId, conversationId, body) ==
  /\ Free(r)
  /\ req' = [req EXCEPT ![r] =
       IF userId = NoUser
       THEN [Respond(r, "PUT", userId, "", Unauthorized)
               EXCEPT !.json = body]
       ELSE IF body = MalformedJson
       THEN [Respond(r, "PUT", userId, "",
                     Failed("Failed to update conversation"))
               EXCEPT !.json = body]
       ELSE IF ~UpdateConversationSchema(body)
       THEN [Respond(r, "PUT", userId, "", InvalidFormat)
               EXCEPT !.json = body]
       ELSE LET conversation == getConversation(userId, conversationId)
                titled == IF body.title # None
                          THEN [conversation EXCEPT !.title = body.title[1]]
                          ELSE conversation
                updated == IF body.messages # None
                           THEN [titled EXCEPT !.messages =
                                   StampMessages(body.messages[1], now)]
                           ELSE titled
                base == [IdleReq EXCEPT
                           !.op = "PUT", !.user = userId,
                           !.id = conversationId,
                           !.json = body, !.called = redis,
                           !.absent =
                              getConversationKey(userId, conversationId)
                                \notin DOMAIN records]
            IN IF conversation = Null
               THEN [base EXCEPT !.pc = "done",
                                 !.resp = ConversationNotFound]
               ELSE [base EXCEPT !.pc = "save_set", !.long = TRUE,
                                 !.read = conversation,
                                 !.conv = updated]]
  /\ UNCHANGED <<now, redis, records, zsets, allocated, deletedSince>>
  /\ lreq' = Overlap(records', zsets')
  /\ UNCHANGED <<lastAck, chatVars>>

\* ---- saveConversation: updatedAt and redis.set ------------------------------
saveConversation_set_restamped(r) ==
  /\ NoResponsePending
  /\ req[r].pc = "save_set"
  /\ LET conversation == [req[r].conv EXCEPT !.updatedAt = now,
                                             !.createdAt = now]
     IN /\ records' = saveConversationSet(records, req[r].user,
                                          conversation, now)
        /\ req' = [req EXCEPT ![r].conv = conversation,
                              ![r].wrote = TRUE,
                              ![r].pc = "save_zadd"]
        /\ deletedSince' = deletedSince
             \ {getConversationKey(req[r].user, conversation.id)}
  /\ UNCHANGED <<now, redis, zsets, allocated>>
  /\ lreq' = Overlap(records', zsets')
  /\ UNCHANGED <<lastAck, chatVars>>

saveConversation_set(r) ==
  /\ NoResponsePending
  /\ req[r].pc = "save_set"
  /\ LET conversation == [req[r].conv EXCEPT !.updatedAt = now]
     IN /\ records' = saveConversationSet(records, req[r].user,
                                          conversation, now)
        /\ req' = [req EXCEPT ![r].conv = conversation,
                              ![r].wrote = TRUE,
                              ![r].pc = "save_zadd"]
        /\ deletedSince' = deletedSince
             \ {getConversationKey(req[r].user, conversation.id)}
  /\ UNCHANGED <<now, redis, zsets, allocated>>
  /\ lreq' = Overlap(records', zsets')
  /\ UNCHANGED <<lastAck, chatVars>>

\* ---- saveConversation: redis.zadd, then the handler's success response ------
saveConversation_zadd_created(r) ==
  /\ NoResponsePending
  /\ req[r].pc = "save_zadd"
  /\ zsets' = RedisZadd(zsets, getUserConversationsKey(req[r].user),
                        req[r].conv.createdAt, req[r].conv.id)
  /\ req' = [req EXCEPT
       ![r].pc = "done",
       ![r].resp =
          IF req[r].op = "PATCH"
          THEN Success([conversation |-> req[r].conv,
                        addedMessage |-> req[r].added])
          ELSE Success([conversation |-> req[r].conv])]
  /\ UNCHANGED <<now, redis, records, allocated, deletedSince>>
  /\ lreq' = Overlap(records', zsets')
  /\ UNCHANGED <<lastAck, chatVars>>

saveConversation_zadd(r) ==
  /\ NoResponsePending
  /\ req[r].pc = "save_zadd"
  /\ zsets' = RedisZadd(zsets, getUserConversationsKey(req[r].user), now,
                        req[r].conv.id)
  /\ req' = [req EXCEPT
       ![r].pc = "done",
       ![r].resp =
          IF req[r].op = "PATCH"
          THEN Success([conversation |-> req[r].conv,
                        addedMessage |-> req[r].added])
          ELSE Success([conversation |-> req[r].conv])]
  /\ UNCHANGED <<now, redis, records, allocated, deletedSince>>
  /\ lreq' = Overlap(records', zsets')
  /\ UNCHANGED <<lastAck, chatVars>>

\* ---- DELETE /api/chatbot/conversations/[id]: the existence check -------------
DELETE_get(r, userId, conversationId) ==
  /\ Free(r)
  /\ LET key == getConversationKey(userId, conversationId)
         conversation == getConversation(userId, conversationId)
     IN IF userId = NoUser
        THEN /\ req' = [req EXCEPT ![r] =
                  Respond(r, "DELETE", userId, "", Unauthorized)]
             /\ UNCHANGED deletedSince
        ELSE IF ~redis
        THEN /\ req' = [req EXCEPT ![r] =
                  Respond(r, "DELETE", userId, conversationId,
                          Success([deleted |-> FALSE]))]
             /\ deletedSince' = deletedSince \cup {key}
        ELSE IF conversation = Null
        THEN /\ req' = [req EXCEPT ![r] =
                  [Respond(r, "DELETE", userId, conversationId,
                           ConversationNotFound) EXCEPT !.called = TRUE]]
             /\ deletedSince' = deletedSince \cup {key}
        ELSE /\ req' = [req EXCEPT ![r] =
                  [IdleReq EXCEPT !.op = "DELETE", !.pc = "delete_del", !.long = TRUE,
                                  !.user = userId, !.id = conversationId,
                                  !.read = conversation, !.called = TRUE]]
             /\ UNCHANGED deletedSince
  /\ UNCHANGED <<now, redis, records, zsets, allocated>>
  /\ lreq' = Overlap(records', zsets')
  /\ UNCHANGED <<lastAck, chatVars>>

\* ---- DELETE by id: redis.del --------------------------------------------------
DELETE_del_keep(r) ==
  /\ NoResponsePending
  /\ req[r].pc = "delete_del"
  /\ LET key == getConversationKey(req[r].user, req[r].id)
         deleted == RedisDelCount(records, key)
     IN /\ records' = records
        /\ deletedSince' = deletedSince \cup {key}
        /\ req' = [req EXCEPT ![r] =
             IF deleted > 0
             THEN [@ EXCEPT !.pc = "delete_zrem", !.count = deleted,
                            !.wrote = TRUE]
             ELSE [@ EXCEPT !.pc = "done",
                            !.resp = Success([deleted |-> FALSE])]]
  /\ UNCHANGED <<now, redis, zsets, allocated>>
  /\ lreq' = Overlap(records', zsets')
  /\ UNCHANGED <<lastAck, chatVars>>

DELETE_del(r) ==
  /\ NoResponsePending
  /\ req[r].pc = "delete_del"
  /\ LET key == getConversationKey(req[r].user, req[r].id)
         deleted == RedisDelCount(records, key)
     IN /\ records' = RedisDel(records, key)
        /\ deletedSince' = deletedSince \cup {key}
        /\ req' = [req EXCEPT ![r] =
             IF deleted > 0
             THEN [@ EXCEPT !.pc = "delete_zrem", !.count = deleted,
                            !.wrote = TRUE, !.gone = req[r].id]
             ELSE [@ EXCEPT !.pc = "done",
                            !.resp = Success([deleted |-> FALSE])]]
  /\ UNCHANGED <<now, redis, zsets, allocated>>
  /\ lreq' = Overlap(records', zsets')
  /\ UNCHANGED <<lastAck, chatVars>>

\* ---- DELETE by id: redis.zrem and the response --------------------------------
DELETE_zrem_skip(r) ==
  /\ NoResponsePending
  /\ req[r].pc = "delete_zrem"
  /\ zsets' = zsets
  /\ req' = [req EXCEPT ![r].pc = "done",
                        ![r].resp = Success([deleted |-> req[r].count > 0])]
  /\ UNCHANGED <<now, redis, records, allocated, deletedSince>>
  /\ lreq' = Overlap(records', zsets')
  /\ UNCHANGED <<lastAck, chatVars>>

DELETE_zrem(r) ==
  /\ NoResponsePending
  /\ req[r].pc = "delete_zrem"
  /\ zsets' = RedisZrem(zsets, getUserConversationsKey(req[r].user),
                        req[r].id)
  /\ req' = [req EXCEPT ![r].pc = "done",
                        ![r].resp = Success([deleted |-> req[r].count > 0])]
  /\ UNCHANGED <<now, redis, records, allocated, deletedSince>>
  /\ lreq' = Overlap(records', zsets')
  /\ UNCHANGED <<lastAck, chatVars>>


\* nanoid(): an id never returned before; which one is immaterial, so the
\* first unused one stands for it
nanoid ==
  {c \in ConvIds \ allocated :
     \A d \in ConvIds \ allocated : c = d \/ c = "c1"}

\* messages: systemPrompt ? [{role: 'system', content: systemPrompt,
\* timestamp: now}] : []
SeedMessagesAsGiven(systemPrompt, t) ==
  IF systemPrompt # None
  THEN <<[role |-> "system", content |-> systemPrompt[1], timestamp |-> t]>>
  ELSE <<>>

SeedMessages(systemPrompt, t) ==
  IF systemPrompt # None /\ systemPrompt[1] # ""
  THEN <<[role |-> "system", content |-> systemPrompt[1], timestamp |-> t]>>
  ELSE <<>>

\* ---- POST /api/chatbot/conversations: up to redis.set -------------------------
POST_conversations(r, userId, body) ==
  /\ Free(r)
  /\ IF userId = NoUser
     THEN /\ req' = [req EXCEPT ![r] =
               [Respond(r, "POST", userId, "", Unauthorized)
                  EXCEPT !.json = body]]
          /\ UNCHANGED <<records, allocated, deletedSince>>
     ELSE IF body = MalformedJson
     THEN /\ req' = [req EXCEPT ![r] =
               [Respond(r, "POST", userId, "",
                        Failed("Failed to create conversation"))
                  EXCEPT !.json = body]]
          /\ UNCHANGED <<records, allocated, deletedSince>>
     ELSE IF ~CreateConversationSchema(body)
     THEN /\ req' = [req EXCEPT ![r] =
               [Respond(r, "POST", userId, "", InvalidFormat)
                  EXCEPT !.json = body]]
          /\ UNCHANGED <<records, allocated, deletedSince>>
     ELSE \E conversationId \in nanoid :
          LET conversation ==
                [id |-> conversationId,
                 title |-> body.title,
                 messages |-> SeedMessages(body.systemPrompt, now),
                 model |-> IF body.model # None THEN body.model[1]
                           ELSE "gpt-4o-mini",
                 createdAt |-> now,
                 updatedAt |-> now,
                 userId |-> userId]
          IN /\ allocated' = allocated \cup {conversationId}
             /\ IF redis
                THEN /\ records' = RedisSet(records,
                           getConversationKey(userId, conversationId),
                           conversation, now)
                     /\ deletedSince' = deletedSince
                           \ {getConversationKey(userId, conversationId)}
                     /\ req' = [req EXCEPT ![r] =
                          [IdleReq EXCEPT !.op = "POST", !.pc = "create_zadd", !.long = TRUE,
                                          !.user = userId,
                                          !.id = conversationId,
                                          !.conv = conversation,
                                          !.json = body, !.called = TRUE,
                                          !.wrote = TRUE]]
                ELSE /\ UNCHANGED <<records, deletedSince>>
                     /\ req' = [req EXCEPT ![r] =
                          [Respond(r, "POST", userId, conversationId,
                                   Success([conversation |-> conversation]))
                           EXCEPT !.conv = conversation, !.json = body]]
  /\ UNCHANGED <<now, redis, zsets>>
  /\ lreq' = Overlap(records', zsets')
  /\ UNCHANGED <<lastAck, chatVars>>

\* ---- create: redis.zadd(userKey, Date.now(), conversationId) --------------------
POST_zadd(r) ==
  /\ NoResponsePending
  /\ req[r].pc = "create_zadd"
  /\ zsets' = RedisZadd(zsets, getUserConversationsKey(req[r].user), now,
                        req[r].id)
  /\ req' = [req EXCEPT ![r].pc = "create_expire"]
  /\ UNCHANGED <<now, redis, records, allocated, deletedSince>>
  /\ lreq' = Overlap(records', zsets')
  /\ UNCHANGED <<lastAck, chatVars>>

\* ---- create: redis.expire(userKey, 30 days) and the response ----------------------
POST_expire(r) ==
  /\ NoResponsePending
  /\ req[r].pc = "create_expire"
  /\ zsets' = RedisExpire(zsets, getUserConversationsKey(req[r].user), now)
  /\ req' = [req EXCEPT
       ![r].pc = "done",
       ![r].resp = Success([conversation |-> req[r].conv])]
  /\ UNCHANGED <<now, redis, records, allocated, deletedSince>>
  /\ lreq' = Overlap(records', zsets')
  /\ UNCHANGED <<lastAck, chatVars>>

\* ---- DELETE /api/chatbot/conversations?ids=...: up to the loop ---------------------
DELETE_conversations(r, userId, conversationIds) ==
  /\ Free(r)
  /\ req' = [req EXCEPT ![r] =
       IF userId = NoUser
       THEN Respond(r, "DELETEMANY", userId, "", Unauthorized)
       ELSE IF Len(conversationIds) = 0
       THEN Respond(r, "DELETEMANY", userId, "",
                    [status |-> 400, success |-> FALSE,
                     error |-> "No conversation IDs provided"])
       ELSE IF ~redis
       THEN [Respond(r, "DELETEMANY", userId, "",
                     Success([deletedCount |-> 0]))
               EXCEPT !.asked = conversationIds]
       ELSE [IdleReq EXCEPT !.op = "DELETEMANY", !.pc = "many_del", !.long = TRUE,
                            !.user = userId, !.ids = conversationIds,
                            !.called = TRUE,
                            !.asked = conversationIds,
                            !.before = [records |-> records,
                                        zsets |-> zsets]]]
  /\ UNCHANGED <<now, redis, records, zsets, allocated, deletedSince>>
  /\ lreq' = Overlap(records', zsets')
  /\ UNCHANGED <<lastAck, chatVars>>

\* the for loop moves on to the next id, or the handler responds
NextId(q) ==
  IF Len(q.ids) > 1
  THEN [q EXCEPT !.pc = "many_del", !.ids = Tail(q.ids)]
  ELSE [q EXCEPT !.pc = "done", !.ids = <<>>,
                 !.resp = Success([deletedCount |-> q.count])]

\* ---- deleteMany: redis.del of the current id -------------------------------------
DELETE_many_del_always(r) ==
  /\ NoResponsePending
  /\ req[r].pc = "many_del"
  /\ LET key == getConversationKey(req[r].user, Head(req[r].ids))
         deleted == RedisDelCount(records, key)
     IN /\ records' = RedisDel(records, key)
        /\ req' = [req EXCEPT ![r] =
             [@ EXCEPT !.pc = "many_zrem", !.wrote = deleted > 0,
                       !.gone = IF deleted > 0 THEN Head(req[r].ids)
                                ELSE ""]]
  /\ UNCHANGED <<now, redis, zsets, allocated, deletedSince>>
  /\ lreq' = Overlap(records', zsets')
  /\ UNCHANGED <<lastAck, chatVars>>

DELETE_many_del(r) ==
  /\ NoResponsePending
  /\ req[r].pc = "many_del"
  /\ LET key == getConversationKey(req[r].user, Head(req[r].ids))
         deleted == RedisDelCount(records, key)
     IN /\ records' = RedisDel(records, key)
        /\ req' = [req EXCEPT ![r] =
             IF deleted > 0
             THEN [@ EXCEPT !.pc = "many_zrem", !.wrote = TRUE,
                            !.gone = Head(req[r].ids)]
             ELSE NextId([@ EXCEPT !.gone = ""])]
  /\ UNCHANGED <<now, redis, zsets, allocated, deletedSince>>
  /\ lreq' = Overlap(records', zsets')
  /\ UNCHANGED <<lastAck, chatVars>>

\* ---- deleteMany: redis.zrem of the current id, deletedCount++ ----------------------
DELETE_many_zrem(r) ==
  /\ NoResponsePending
  /\ req[r].pc = "many_zrem"
  /\ zsets' = RedisZrem(zsets, getUserConversationsKey(req[r].user),
                        Head(req[r].ids))
  /\ req' = [req EXCEPT ![r] = NextId([@ EXCEPT !.count = @ + 1])]
  /\ UNCHANGED <<now, redis, records, allocated, deletedSince>>
  /\ lreq' = Overlap(records', zsets')
  /\ UNCHANGED <<lastAck, chatVars>>

\* ---- deleteMany: redis.del or redis.zrem rejects (the store fails); the catch
\* ---- of the handler answers.  ids keeps the id at which the store failed
\* ---- and the ids after it.
FailedToDeleteConversations ==
  [status |-> 500, success |-> FALSE,
   error |-> "Failed to delete conversations"]

DELETE_many_fails(r) ==
  /\ NoResponsePending
  /\ req[r].pc \in {"many_del", "many_zrem"}
  /\ req' = [req EXCEPT ![r].pc = "done",
                        ![r].resp = FailedToDeleteConversations]
  /\ UNCHANGED <<now, redis, records, zsets, allocated, deletedSince>>
  /\ lreq' = Overlap(records', zsets')
  /\ UNCHANGED <<lastAck, chatVars>>

\* ---- GET /api/chatbot/conversations (list) ------------------------------------------
IdleList ==
  [pc |-> "idle", user |-> NoUser, limit |-> 0, offset |-> 0,
   conversationIds |-> <<>>, pending |-> {}, conversations |-> <<>>,
   members |-> <<>>, clean |-> TRUE, card |-> 0, called |-> FALSE,
   resp |-> NoResp]

\* parseInt(url.searchParams.get('limit') || '20') capped by Math.min(.., 100)
ParseLimit(param) == Min(IF param = None THEN 20 ELSE param[1], 100)

\* parseInt(url.searchParams.get('offset') || '0') raised by Math.max(.., 0)
ParseOffset(param) == Max(IF param = None THEN 0 ELSE param[1], 0)

EmptyPage == Success([conversations |-> <<>>, total |-> 0, hasMore |-> FALSE])

\* history: the index (member -> score) as redis.zrevrange finds it
Members(zs, key) == IF key \in DOMAIN zs THEN zs[key].members ELSE <<>>

\* up to redis.zrevrange and the answer to an empty page
GET_conversations(userId, limitParam, offsetParam) ==
  /\ NoResponsePending
  /\ lreq.pc = "idle"
  /\ LET limit == ParseLimit(limitParam)
         offset == ParseOffset(offsetParam)
         userKey == getUserConversationsKey(userId)
         conversationIds ==
           RedisZrevrange(zsets, userKey, offset, offset + limit - 1)
         base == [IdleList EXCEPT !.user = userId, !.limit = limit,
                                  !.offset = offset,
                                  !.members = Members(zsets, userKey),
                                  !.card = RedisZcard(zsets, userKey)]
     IN lreq' =
          IF userId = NoUser
          THEN [IdleList EXCEPT !.pc = "done", !.resp = Unauthorized]
          ELSE IF ~redis
          THEN [base EXCEPT !.pc = "done", !.resp = EmptyPage]
          ELSE IF Len(conversationIds) = 0
          THEN [base EXCEPT !.pc = "done", !.resp = EmptyPage,
                            !.called = TRUE]
          ELSE [base EXCEPT !.pc = "list_get", !.called = TRUE,
                            !.conversationIds = conversationIds,
                            !.pending = 1..Len(conversationIds),
                            !.conversations =
                               [i \in 1..Len(conversationIds) |-> Null]]
  /\ UNCHANGED <<now, redis, records, zsets, allocated, req, deletedSince>>
  /\ UNCHANGED <<lastAck, chatVars>>

\* Promise.all(conversationIds.map(...)): the redis.get of one id; the gets are
\* issued together and answered in any order, each result taking the place of
\* its id
list_get(i) ==
  /\ NoResponsePending
  /\ lreq.pc = "list_get"
  /\ i \in lreq.pending
  /\ LET key == getConversationKey(lreq.user, lreq.conversationIds[i])
         data == RedisGet(records, key)
     IN lreq' = [lreq EXCEPT
          !.conversations = [@ EXCEPT ![i] = data],
          !.pending = @ \ {i},
          !.pc = IF lreq.pending = {i} THEN "list_zcard" ELSE "list_get"]
  /\ UNCHANGED <<now, redis, records, zsets, allocated, req, deletedSince>>
  /\ UNCHANGED <<lastAck, chatVars>>

\* conversations.filter(Boolean)
IsConversation(data) == data # Null

\* redis.zcard and the response
list_zcard ==
  /\ NoResponsePending
  /\ lreq.pc = "list_zcard"
  /\ LET validConversations == SelectSeq(lreq.conversations, IsConversation)
         total == RedisZcard(zsets, getUserConversationsKey(lreq.user))
     IN lreq' = [lreq EXCEPT
          !.pc = "done",
          !.card = total,
          !.resp = Success([conversations |-> validConversations,
                            total |-> total,
                            hasMore |-> lreq.offset + lreq.limit < total])]
  /\ UNCHANGED <<now, redis, records, zsets, allocated, req, deletedSince>>
  /\ UNCHANGED <<lastAck, chatVars>>

\* the list response reaches the caller
list_return ==
  /\ lreq.pc = "done"
  /\ lreq' = IdleList
  /\ UNCHANGED <<now, redis, records, zsets, allocated, req, deletedSince>>
  /\ UNCHANGED <<lastAck, chatVars>>

\* ---- time passes: keys past their TTL leave the keyspace ----------------------------
\* A tick is 15 days and a request lasts seconds: the instant of a tick may
\* fall within a request, but no request lives through two ticks.
InFlight(r) == req[r].pc \notin {"idle", "done", "closed"}

Tick ==
  /\ NoResponsePending
  /\ now < MaxTime
  /\ \A r \in Reqs : InFlight(r) => ~req[r].ticked
  /\ now' = now + 1
  /\ records' = ExpireRecords(records, now + 1)
  /\ zsets' = ExpireZsets(zsets, now + 1)
  /\ req' = [r \in Reqs |->
               IF InFlight(r) THEN [req[r] EXCEPT !.ticked = TRUE]
               ELSE req[r]]
  /\ lreq' = Overlap(records', zsets')
  /\ UNCHANGED <<redis, allocated, deletedSince>>
  /\ UNCHANGED <<lastAck, chatVars>>

\* ---- the response reaches the caller ------------------------------------------------
Return(r) ==
  /\ req[r].pc = "done"
  /\ req' = [req EXCEPT ![r] =
       IF req[r].long THEN [IdleReq EXCEPT !.pc = "closed"] ELSE IdleReq]
  /\ lastAck' = IF req[r].op = "PATCH" /\ req[r].resp.status = 200
                THEN [key |-> getConversationKey(req[r].user, req[r].id),
                      message |-> req[r].added,
                      base |-> req[r].read.messages]
                ELSE lastAck
  /\ UNCHANGED <<now, redis, records, zsets, allocated, deletedSince>>
  /\ UNCHANGED <<lreq, chatVars>>

\* ---- inputs ---------------------------------------------------------------------------
Callers == {"u1", NoUser}
\* a title of 101 characters
LongTitle ==
  "0123456789012345678901234567890123456789012345678901234567890123456789012345678901234567890123456789x"

AddMessageBodies ==
  [role : {"user", "system"}, content : {"x", "y"}] \cup {MalformedJson}
UpdateBodies ==
  { [title |-> Some("T2"), messages |-> None],
    [title |-> Some(""), messages |-> None],
    [title |-> None,
     messages |-> Some(<<[role |-> "assistant", content |-> "z",
                          timestamp |-> None]>>)],
    [title |-> None,
     messages |-> Some(<<[role |-> "tool", content |-> "z",
                          timestamp |-> None]>>)],
    [title |-> Some("T3"),
     messages |-> Some(<<[role |-> "user", content |-> "q",
                          timestamp |-> Some(0)],
                         [role |-> "assistant", content |-> "a",
                          timestamp |-> None]>>)],
    [title |-> None, messages |-> Some(<<>>)],
    [title |-> None, messages |-> None],
    [title |-> Some(LongTitle), messages |-> None],
    MalformedJson }
CreateBodies ==
  { [title |-> "T", model |-> None, systemPrompt |-> None],
    [title |-> "T", model |-> Some("m"), systemPrompt |-> Some("sp")],
    [title |-> "", model |-> None, systemPrompt |-> None],
    [title |-> "T", model |-> None, systemPrompt |-> Some("")],
    [title |-> LongTitle, model |-> None, systemPrompt |-> None],
    MalformedJson }
IdLists == {<<>>, <<"c2", "c1">>, <<"c1", "c1">>}
LimitParams == {None, Some(0), Some(1)}
OffsetParams == {None, Some(-1), Some(1)}

EmptyMap == [k \in {} |-> Null]

\* The store is empty, or holds what one earlier create request by u1 (title
\* "T", no model, no system prompt, at time 0) has left in it.
Seeded ==
  [id |-> "c1", title |-> "T", messages |-> <<>>, model |-> "gpt-4o-mini",
   createdAt |-> 0, updatedAt |-> 0, userId |-> "u1"]

InitStore ==
  /\ now = 0
  /\ redis \in BOOLEAN
  /\ \/ /\ records = EmptyMap
        /\ zsets = EmptyMap
        /\ allocated = {}
     \/ /\ redis
        /\ records = RedisSet(EmptyMap, getConversationKey("u1", "c1"),
                              Seeded, 0)
        /\ zsets = RedisExpire(
                     RedisZadd(EmptyMap, getUserConversationsKey("u1"), 0,
                               "c1"),
                     getUserConversationsKey("u1"), 0)
        /\ allocated = {"c1"}
  /\ req = [r \in Reqs |-> IdleReq]
  /\ deletedSince = {}
  /\ lastAck = Null
  /\ lreq = IdleList

NextStore ==
  \/ \E r \in Reqs, u \in Callers, c \in ConvIds : GET_conversation(r, u, c)
  \/ \E r \in Reqs, u \in Callers, c \in ConvIds, b \in AddMessageBodies :
       PATCH_get(r, u, c, b)
  \/ \E r \in Reqs, u \in Callers, c \in ConvIds, b \in UpdateBodies :
       PUT_get(r, u, c, b)
  \/ \E r \in Reqs : saveConversation_set(r)
  \/ \E r \in Reqs : saveConversation_zadd(r)
  \/ \E r \in Reqs, u \in Callers, c \in ConvIds : DELETE_get(r, u, c)
  \/ \E r \in Reqs : DELETE_del(r)
  \/ \E r \in Reqs : DELETE_zrem(r)
  \/ \E r \in Reqs, u \in Callers, b \in CreateBodies :
       POST_conversations(r, u, b)
  \/ \E r \in Reqs : POST_zadd(r)
  \/ \E r \in Reqs : POST_expire(r)
  \/ \E r \in Reqs, u \in Callers, l \in IdLists :
       DELETE_conversations(r, u, l)
  \/ \E r \in Reqs : DELETE_many_del(r)
  \/ \E r \in Reqs : DELETE_many_zrem(r)
  \/ \E r \in Reqs : DELETE_many_fails(r)
  \/ \E r \in Reqs : Return(r)
  \/ Tick

Next == NextStore

\* ---- POST /api/chatbot: the request up to the stream / buffered branch -----------------
\* A model id is a text, written as the sequence of its pieces: the pieces are
\* the prefixes and substrings getProvider looks for and pieces that hold none
\* of them.
DEFAULT_MODELS ==
  [openai |-> <<"gpt-", "4o-mini">>,
   anthropic |-> <<"claude-", "3-haiku-20240307">>,
   google |-> <<"gemini-", "1.5-flash">>,
   groq |-> <<"llama", "-3.1-8b-instant">>,
   xai |-> <<"grok", "-beta">>]

\* model.startsWith(piece)
startsWith(model, piece) == Len(model) >= 1 /\ model[1] = piece

\* model.includes(piece)
includes(model, piece) == \E i \in 1..Len(model) : model[i] = piece

getProviderPassThrough(model) ==
  IF startsWith(model, "gpt-") \/ includes(model, "openai")
  THEN [provider |-> "openai", modelId |-> model]
  ELSE IF startsWith(model, "claude-") \/ includes(model, "anthropic")
  THEN [provider |-> "anthropic", modelId |-> model]
  ELSE IF startsWith(model, "gemini-") \/ includes(model, "google")
  THEN [provider |-> "google", modelId |-> model]
  ELSE IF includes(model, "llama") \/ includes(model, "groq")
  THEN [provider |-> "groq", modelId |-> model]
  ELSE IF includes(model, "grok") \/ includes(model, "xai")
  THEN [provider |-> "xai", modelId |-> model]
  ELSE [provider |-> "openai", modelId |-> model]

getProviderSubstringsFirst(model) ==
  IF includes(model, "llama") \/ includes(model, "groq")
  THEN [provider |-> "groq", modelId |-> model]
  ELSE IF includes(model, "grok") \/ includes(model, "xai")
  THEN [provider |-> "xai", modelId |-> model]
  ELSE IF startsWith(model, "gpt-") \/ includes(model, "openai")
  THEN [provider |-> "openai", modelId |-> model]
  ELSE IF startsWith(model, "claude-") \/ includes(model, "anthropic")
  THEN [provider |-> "anthropic", modelId |-> model]
  ELSE IF startsWith(model, "gemini-") \/ includes(model, "google")
  THEN [provider |-> "google", modelId |-> model]
  ELSE [provider |-> "openai", modelId |-> DEFAULT_MODELS.openai]

getProvider(model) ==
  IF startsWith(model, "gpt-") \/ includes(model, "openai")
  THEN [provider |-> "openai", modelId |-> model]
  ELSE IF startsWith(model, "claude-") \/ includes(model, "anthropic")
  THEN [provider |-> "anthropic", modelId |-> model]
  ELSE IF startsWith(model, "gemini-") \/ includes(model, "google")
  THEN [provider |-> "google", modelId |-> model]
  ELSE IF includes(model, "llama") \/ includes(model, "groq")
  THEN [provider |-> "groq", modelId |-> model]
  ELSE IF includes(model, "grok") \/ includes(model, "xai")
  THEN [provider |-> "xai", modelId |-> model]
  ELSE [provider |-> "openai", modelId |-> DEFAULT_MODELS.openai]

SYSTEM_PROMPTS ==
  [default |-> "You are a helpful, harmless, and honest AI assistant."]

ChatbotRequestSchemaRolesOnly(b) ==
  \A i \in 1..Len(b.messages) : b.messages[i].role \in MessageRoles

\* ChatbotRequestSchema: every message has a role of the enum and the array
\* may have any length; temperature, when given, is a number from 0 to 2 and
\* maxTokens, when given, a number from 1 to 4000
ChatbotRequestSchema(b) ==
  /\ \A i \in 1..Len(b.messages) : b.messages[i].role \in MessageRoles
  /\ b.temperature # None => b.temperature[1] >= 0 /\ b.temperature[1] <= 2
  /\ b.maxTokens # None => b.maxTokens[1] >= 1 /\ b.maxTokens[1] <= 4000

\* requestedModel || DEFAULT_MODELS.openai, replaced by the id of the model
\* saved in the cookie when no model was requested: JSON.parse of a malformed
\* cookie throws and leaves the default, a parsed value without an id gives
\* undefined (None)
SelectedModel(b, c) ==
  LET requested == b.model # None /\ b.model[1] # <<>>
  IN IF requested THEN Some(b.model[1])
     ELSE IF c = None \/ ~c[1].json THEN Some(DEFAULT_MODELS.openai)
     ELSE c[1].id

\* systemPrompt || SYSTEM_PROMPTS.default
systemMessageAsGiven(b) ==
  [role |-> "system",
   content |-> IF b.systemPrompt # None THEN b.systemPrompt[1]
               ELSE SYSTEM_PROMPTS.default]

systemMessage(b) ==
  [role |-> "system",
   content |-> IF b.systemPrompt # None /\ b.systemPrompt[1] # ""
               THEN b.systemPrompt[1]
               ELSE SYSTEM_PROMPTS.default]

\* convertToCoreMessages: a message of role system, user or assistant with a
\* text content becomes the core message of that role and content
convertToCoreMessages(messages) ==
  [i \in 1..Len(messages) |->
     [role |-> messages[i].role, content |-> messages[i].content]]

\* convertToCoreMessages([systemMessage, ...messages])
coreMessages(b) ==
  convertToCoreMessages(<<systemMessage(b)>> \o b.messages)

\* the arguments of streamText
StreamTextCall(b, c) ==
  [selectedModel |-> SelectedModel(b, c)[1],
   provider |-> getProvider(SelectedModel(b, c)[1]).provider,
   modelId |-> getProvider(SelectedModel(b, c)[1]).modelId,
   messages |-> coreMessages(b)]

\* the catch of POST: any error but a ZodError
InternalServerError ==
  [status |-> 500, success |-> FALSE, error |-> "Internal server error"]

\* createDataStreamResponse(...)
DataStreamResponse == [status |-> 200, stream |-> TRUE]

\* ---- POST /api/chatbot (chat completion) ------------------------------------------
\* Text is a sequence of tokens; an incremental unit of backend output is a
\* piece of text.
Units == {<<"a">>, <<"b">>, <<"a", "b">>}

UnitSeqs(n) == UNION {[1..k -> Units] : k \in 0..n}

\* A backend run: streamText either throws at once, or the run emits `units`
\* and then completes ("finish") or fails ("error").
Backends ==
  {[start |-> "throws", units |-> <<>>, ending |-> "error"]}
    \cup [start : {"ok"}, units : UnitSeqs(MaxChunks),
          ending : {"finish", "error"}]

\* conversationId of the validated body: undefined (None) or the id given
ChatConversationId == chatBody.conversationId

\* the catch of the execute callback: dataStream.writeData({type: 'error', ...})
ErrorEvent ==
  [type |-> "error", error |-> "Failed to generate response",
   conversationId |-> ChatConversationId]

\* stream = true: createDataStreamResponse runs execute; streamText and
\* pipeDataStreamToResponse are called inside the try block
POST_chat_stream ==
  /\ sPhase = "idle"
  /\ IF ~ChatbotRequestSchema(chatBody)
     THEN /\ sResp' = InvalidFormat
          /\ sPhase' = "answered"
          /\ UNCHANGED <<sCall, written>>
     ELSE IF SelectedModel(chatBody, cookie) = None
     THEN /\ sResp' = InternalServerError
          /\ sPhase' = "answered"
          /\ UNCHANGED <<sCall, written>>
     ELSE /\ sResp' = DataStreamResponse
          /\ sCall' = StreamTextCall(chatBody, cookie)
          /\ IF backend.start = "throws"
             THEN /\ written' = Append(written, ErrorEvent)
                  /\ sPhase' = "caught"
             ELSE /\ sPhase' = "streaming"
                  /\ UNCHANGED written
  /\ UNCHANGED <<chatBody, cookie, chatUser, backend, bCall, sPos, bPhase,
                 bPos, bText, bResp>>
  /\ UNCHANGED storeVars

\* onChunk: one writeData per incremental unit
onChunkMerge ==
  /\ sPhase = "streaming"
  /\ sPos < Len(backend.units)
  /\ written' =
       IF written # <<>> /\ written[Len(written)].type = "text-chunk"
       THEN [written EXCEPT ![Len(written)].content =
               @ \o backend.units[sPos + 1]]
       ELSE Append(written, [type |-> "text-chunk",
                             content |-> backend.units[sPos + 1],
                             conversationId |-> ChatConversationId])
  /\ sPos' = sPos + 1
  /\ UNCHANGED <<backend, sPhase, bPhase, bPos, bText, bResp>>
  /\ UNCHANGED <<chatBody, cookie, chatUser, sResp, sCall, bCall>>
  /\ UNCHANGED storeVars

onChunkSkipRepeat ==
  /\ sPhase = "streaming"
  /\ sPos < Len(backend.units)
  /\ written' =
       IF written # <<>> /\ written[Len(written)].type = "text-chunk"
          /\ written[Len(written)].content = backend.units[sPos + 1]
       THEN written
       ELSE Append(written, [type |-> "text-chunk",
                             content |-> backend.units[sPos + 1],
                             conversationId |-> ChatConversationId])
  /\ sPos' = sPos + 1
  /\ UNCHANGED <<backend, sPhase, bPhase, bPos, bText, bResp>>
  /\ UNCHANGED <<chatBody, cookie, chatUser, sResp, sCall, bCall>>
  /\ UNCHANGED storeVars

onChunk ==
  /\ sPhase = "streaming"
  /\ sPos < Len(backend.units)
  /\ written' = Append(written, [type |-> "text-chunk",
                                 content |-> backend.units[sPos + 1],
                                 conversationId |-> ChatConversationId])
  /\ sPos' = sPos + 1
  /\ UNCHANGED <<backend, sPhase, bPhase, bPos, bText, bResp>>
  /\ UNCHANGED <<chatBody, cookie, chatUser, sResp, sCall, bCall>>
  /\ UNCHANGED storeVars

\* onFinish: the run is complete; one writeData of conversation-finished
FinishedEvent ==
  [type |-> "conversation-finished", conversationId |-> ChatConversationId,
   usage |-> Len(backend.units), finishReason |-> "stop"]

onFinishEarly ==
  /\ sPhase = "streaming"
  /\ backend.ending = "finish"
  /\ written' = Append(written, FinishedEvent)
  /\ sPhase' = IF sPos = Len(backend.units) THEN "finished" ELSE "streaming"
  /\ UNCHANGED <<backend, sPos, bPhase, bPos, bText, bResp>>
  /\ UNCHANGED <<chatBody, cookie, chatUser, sResp, sCall, bCall>>
  /\ UNCHANGED storeVars

onFinish ==
  /\ sPhase = "streaming"
  /\ sPos = Len(backend.units)
  /\ backend.ending = "finish"
  /\ written' = Append(written, FinishedEvent)
  /\ sPhase' = "finished"
  /\ UNCHANGED <<backend, sPos, bPhase, bPos, bText, bResp>>
  /\ UNCHANGED <<chatBody, cookie, chatUser, sResp, sCall, bCall>>
  /\ UNCHANGED storeVars

\* The backend fails while the response is streaming.  execute has returned
\* by then (nothing in its try block is awaited), so its catch does not run,
\* and streamText is given no onError: this handler writes nothing.
StreamFails ==
  /\ sPhase = "streaming"
  /\ sPos = Len(backend.units)
  /\ backend.ending = "error"
  /\ sPhase' = "failed"
  /\ UNCHANGED <<backend, sPos, written, bPhase, bPos, bText, bResp>>
  /\ UNCHANGED <<chatBody, cookie, chatUser, sResp, sCall, bCall>>
  /\ UNCHANGED storeVars

\* stream = false: await streamText(...)
POST_chat_buffered ==
  /\ bPhase = "idle"
  /\ IF ~ChatbotRequestSchema(chatBody)
     THEN /\ bResp' = InvalidFormat
          /\ bPhase' = "done"
          /\ UNCHANGED bCall
     ELSE IF SelectedModel(chatBody, cookie) = None
     THEN /\ bResp' = InternalServerError
          /\ bPhase' = "done"
          /\ UNCHANGED bCall
     ELSE /\ bCall' = StreamTextCall(chatBody, cookie)
          /\ IF backend.start = "throws"
             THEN /\ bResp' = InternalServerError
                  /\ bPhase' = "done"
             ELSE /\ bPhase' = "awaiting"
                  /\ UNCHANGED bResp
  /\ UNCHANGED <<chatBody, cookie, chatUser, backend, sResp, sCall, sPhase,
                 sPos, written, bPos, bText>>
  /\ UNCHANGED storeVars

\* result.text gathers the units while the handler awaits it
BufferedUnit ==
  /\ bPhase = "awaiting"
  /\ bPos < Len(backend.units)
  /\ bText' = bText \o backend.units[bPos + 1]
  /\ bPos' = bPos + 1
  /\ UNCHANGED <<backend, sPhase, sPos, written, bPhase, bResp>>
  /\ UNCHANGED <<chatBody, cookie, chatUser, sResp, sCall, bCall>>
  /\ UNCHANGED storeVars

\* await result.text resolves: the JSON response
BufferedResolveSaves ==
  /\ bPhase = "awaiting"
  /\ bPos = Len(backend.units)
  /\ backend.ending = "finish"
  /\ bResp' = Success([message |-> [role |-> "assistant", content |-> bText],
                       conversationId |-> ChatConversationId,
                       model |-> bCall.selectedModel,
                       usage |-> Len(backend.units)])
  /\ bPhase' = "done"
  /\ records' =
       IF ChatConversationId # None
          /\ getConversation(chatUser, ChatConversationId[1]) # Null
       THEN saveConversationSet(
              records, chatUser,
              pushMessage(getConversation(chatUser, ChatConversationId[1]),
                          [role |-> "assistant", content |-> bText,
                           timestamp |-> now]),
              now)
       ELSE records
  /\ UNCHANGED <<backend, sPhase, sPos, written, bPos, bText>>
  /\ UNCHANGED <<chatBody, cookie, chatUser, sResp, sCall, bCall>>
  /\ UNCHANGED <<now, redis, zsets, allocated, req, deletedSince, lastAck,
                 lreq>>

BufferedResolveRanModel ==
  /\ bPhase = "awaiting"
  /\ bPos = Len(backend.units)
  /\ backend.ending = "finish"
  /\ bResp' = Success([message |-> [role |-> "assistant", content |-> bText],
                       conversationId |-> ChatConversationId,
                       model |-> bCall.modelId,
                       usage |-> Len(backend.units)])
  /\ bPhase' = "done"
  /\ UNCHANGED <<backend, sPhase, sPos, written, bPos, bText>>
  /\ UNCHANGED <<chatBody, cookie, chatUser, sResp, sCall, bCall>>
  /\ UNCHANGED storeVars

BufferedResolve ==
  /\ bPhase = "awaiting"
  /\ bPos = Len(backend.units)
  /\ backend.ending = "finish"
  /\ bResp' = Success([message |-> [role |-> "assistant", content |-> bText],
                       conversationId |-> ChatConversationId,
                       model |-> bCall.selectedModel,
                       usage |-> Len(backend.units)])
  /\ bPhase' = "done"
  /\ UNCHANGED <<backend, sPhase, sPos, written, bPos, bText>>
  /\ UNCHANGED <<chatBody, cookie, chatUser, sResp, sCall, bCall>>
  /\ UNCHANGED storeVars

\* await result.text rejects: the catch of POST
BufferedRejectPartial ==
  /\ bPhase = "awaiting"
  /\ bPos = Len(backend.units)
  /\ backend.ending = "error"
  /\ bResp' = Success([message |-> [role |-> "assistant", content |-> bText],
                       conversationId |-> ChatConversationId,
                       model |-> bCall.selectedModel,
                       usage |-> Len(backend.units)])
  /\ bPhase' = "done"
  /\ UNCHANGED <<backend, sPhase, sPos, written, bPos, bText>>
  /\ UNCHANGED <<chatBody, cookie, chatUser, sResp, sCall, bCall>>
  /\ UNCHANGED storeVars

BufferedReject ==
  /\ bPhase = "awaiting"
  /\ bPos = Len(backend.units)
  /\ backend.ending = "error"
  /\ bResp' = InternalServerError
  /\ bPhase' = "done"
  /\ UNCHANGED <<backend, sPhase, sPos, written, bPos, bText>>
  /\ UNCHANGED <<chatBody, cookie, chatUser, sResp, sCall, bCall>>
  /\ UNCHANGED storeVars

ChatIdle ==
  /\ sResp = NoResp
  /\ sCall = Null
  /\ bCall = Null
  /\ sPhase = "idle"
  /\ sPos = 0
  /\ written = <<>>
  /\ bPhase = "idle"
  /\ bPos = 0
  /\ bText = <<>>
  /\ bResp = NoResp

\* ---- chat requests ------------------------------------------------------------------
PlainBody ==
  [messages |-> <<[role |-> "user", content |-> "hi"]>>,
   conversationId |-> None,
   model |-> None, systemPrompt |-> None,
   temperature |-> None, maxTokens |-> None]

\* the plain body, for the stored conversation c1
BodyOfConversation == [PlainBody EXCEPT !.conversationId = Some("c1")]

ModelPieces ==
  {"gpt-", "openai", "claude-", "anthropic", "gemini-", "google",
   "llama", "groq", "grok", "xai", "my-"}

ModelIds ==
  UNION {[1..k -> ModelPieces] : k \in 0..2}
    \cup {DEFAULT_MODELS.openai, DEFAULT_MODELS.anthropic,
          <<"some-", "llama", "-model">>}

ChatMessages ==
  { <<>>,
    <<[role |-> "user", content |-> "hi"]>>,
    <<[role |-> "system", content |-> "s"],
      [role |-> "user", content |-> "hi"],
      [role |-> "assistant", content |-> "yo"]>>,
    <<[role |-> "tool", content |-> "t"]>> }

ChatBodies ==
  [messages : ChatMessages,
   conversationId : {None},
   model : {None} \cup {Some(m) : m \in ModelIds},
   systemPrompt : {None, Some(""), Some("be brief")},
   temperature : {None},
   maxTokens : {None}]

Cookies ==
  {None,
   Some([json |-> FALSE, id |-> None]),
   Some([json |-> TRUE, id |-> None]),
   Some([json |-> TRUE, id |-> Some(<<>>)]),
   Some([json |-> TRUE, id |-> Some(<<"my-", "groq">>)])}

\* the store specification: no chat request is made
Init ==
  /\ InitStore
  /\ chatBody = PlainBody
  /\ cookie = None
  /\ chatUser = "u1"
  /\ backend = [start |-> "ok", units |-> <<>>, ending |-> "finish"]
  /\ ChatIdle

Spec == Init /\ [][Next]_vars

\* ---- the store with the list endpoint ----------------------------------------------
\* What a create request (title "T", no model, no system prompt) by userId at
\* time 0 has left in the store.
Created(recs, userId, conversationId) ==
  RedisSet(recs, getConversationKey(userId, conversationId),
           [Seeded EXCEPT !.id = conversationId, !.userId = userId], 0)

Indexed(zs, userId, conversationId) ==
  RedisExpire(RedisZadd(zs, getUserConversationsKey(userId), 0,
                        conversationId),
              getUserConversationsKey(userId), 0)

\* The store is unconfigured, or empty, or holds the conversations of earlier
\* create requests: c1 of u1; c1 and c2 of u1; c1 of u1 and c2 of u2.  The
\* run follows the list request next to one writing request and any number of
\* requests that are answered at their first step.
InitList ==
  /\ now = 0
  /\ redis \in BOOLEAN
  /\ \/ /\ records = EmptyMap
        /\ zsets = EmptyMap
        /\ allocated = {}
     \/ /\ redis
        /\ records = Created(EmptyMap, "u1", "c1")
        /\ zsets = Indexed(EmptyMap, "u1", "c1")
        /\ allocated = {"c1"}
     \/ /\ redis
        /\ records = Created(Created(EmptyMap, "u1", "c1"), "u1", "c2")
        /\ zsets = Indexed(Indexed(EmptyMap, "u1", "c1"), "u1", "c2")
        /\ allocated = {"c1", "c2"}
     \/ /\ redis
        /\ records = Created(Created(EmptyMap, "u1", "c1"), "u2", "c2")
        /\ zsets = Indexed(Indexed(EmptyMap, "u1", "c1"), "u2", "c2")
        /\ allocated = {"c1", "c2"}
  /\ req = [r \in Reqs |->
              IF r = 1 THEN IdleReq ELSE [IdleReq EXCEPT !.pc = "closed"]]
  /\ deletedSince = {}
  /\ lastAck = Null
  /\ lreq = IdleList
  /\ chatBody = PlainBody
  /\ cookie = None
  /\ chatUser = "u1"
  /\ backend = [start |-> "ok", units |-> <<>>, ending |-> "finish"]
  /\ ChatIdle

NextList ==
  \/ NextStore
  \/ \E u \in Callers, l \in LimitParams, o \in OffsetParams :
       GET_conversations(u, l, o)
  \/ \E i \in 1..Cardinality(ConvIds) : list_get(i)
  \/ list_zcard
  \/ list_return

SpecList == InitList /\ [][NextList]_vars

\* the chat specification: one backend run, requested once with stream = true
\* and once with stream = false, without a conversationId or with the id of
\* the conversation c1 that u1 has in the store; no store request is made
InitChat ==
  /\ now = 0
  /\ redis = TRUE
  /\ records = Created(EmptyMap, "u1", "c1")
  /\ zsets = Indexed(EmptyMap, "u1", "c1")
  /\ allocated = {"c1"}
  /\ req = [r \in Reqs |-> IdleReq]
  /\ deletedSince = {}
  /\ lastAck = Null
  /\ lreq = IdleList
  /\ chatBody \in {PlainBody, BodyOfConversation}
  /\ cookie = None
  /\ chatUser = "u1"
  /\ backend \in Backends
  /\ ChatIdle

NextChat ==
  \/ POST_chat_stream
  \/ onChunk
  \/ onFinish
  \/ StreamFails
  \/ POST_chat_buffered
  \/ BufferedUnit
  \/ BufferedResolve
  \/ BufferedReject

SpecChat == InitChat /\ [][NextChat]_vars

\* the request specification: any body and cookie, requested once with
\* stream = true and once with stream = false, against a backend run of one unit
InitRequest ==
  /\ now = 0
  /\ redis = TRUE
  /\ records = EmptyMap
  /\ zsets = EmptyMap
  /\ allocated = {}
  /\ req = [r \in Reqs |-> IdleReq]
  /\ deletedSince = {}
  /\ lastAck = Null
  /\ lreq = IdleList
  /\ chatBody \in ChatBodies
  /\ cookie \in Cookies
  /\ chatUser = "u1"
  /\ backend \in {[start |-> "throws", units |-> <<>>, ending |-> "error"],
                  [start |-> "ok", units |-> <<<<"a">>>>, ending |-> "finish"],
                  [start |-> "ok", units |-> <<<<"a">>>>, ending |-> "error"]}
  /\ ChatIdle

SpecRequest == InitRequest /\ [][NextChat]_vars


\* the entry specification: requests as they are received.  Every handler runs
\* up to its answer or its first await of a store command that is followed by
\* another; a chat request is received with and without a resolved user, with
\* parameters in and out of range.
EntryBodies ==
  {PlainBody,
   [PlainBody EXCEPT !.temperature = Some(2), !.maxTokens = Some(4000)],
   [PlainBody EXCEPT !.temperature = Some(3)],
   [PlainBody EXCEPT !.temperature = Some(-1)],
   [PlainBody EXCEPT !.maxTokens = Some(0)],
   [PlainBody EXCEPT !.maxTokens = Some(4001)],
   [PlainBody EXCEPT !.messages = <<[role |-> "tool", content |-> "t"]>>]}

InitEntry ==
  /\ now = 0
  /\ redis \in BOOLEAN
  /\ IF redis
     THEN /\ records = Created(EmptyMap, "u1", "c1")
          /\ zsets = Indexed(EmptyMap, "u1", "c1")
          /\ allocated = {"c1"}
     ELSE /\ records = EmptyMap
          /\ zsets = EmptyMap
          /\ allocated = {}
  /\ req = [r \in Reqs |->
              IF r = 1 THEN IdleReq ELSE [IdleReq EXCEPT !.pc = "closed"]]
  /\ deletedSince = {}
  /\ lastAck = Null
  /\ lreq = IdleList
  /\ chatBody \in EntryBodies
  /\ cookie = None
  /\ chatUser \in Callers
  /\ backend \in {[start |-> "throws", units |-> <<>>, ending |-> "error"],
                  [start |-> "ok", units |-> <<>>, ending |-> "finish"]}
  /\ ChatIdle

NextEntry ==
  \/ \E r \in Reqs, u \in Callers, c \in ConvIds : GET_conversation(r, u, c)
  \/ \E r \in Reqs, u \in Callers, c \in ConvIds, b \in AddMessageBodies :
       PATCH_get(r, u, c, b)
  \/ \E r \in Reqs, u \in Callers, c \in ConvIds, b \in UpdateBodies :
       PUT_get(r, u, c, b)
  \/ \E r \in Reqs, u \in Callers, c \in ConvIds : DELETE_get(r, u, c)
  \/ \E r \in Reqs, u \in Callers, b \in CreateBodies :
       POST_conversations(r, u, b)
  \/ \E r \in Reqs, u \in Callers, l \in IdLists :
       DELETE_conversations(r, u, l)
  \/ \E r \in Reqs : Return(r)
  \/ \E u \in Callers, l \in LimitParams, o \in OffsetParams :
       GET_conversations(u, l, o)
  \/ list_return
  \/ POST_chat_stream
  \/ POST_chat_buffered

SpecEntry == InitEntry /\ [][NextEntry]_vars

\* ---- two overlapping requests on stored conversations -------------------------
\* The response reaches the caller; what the request did stays on record.
Returned(r) ==
  /\ req[r].pc = "done"
  /\ req' = [req EXCEPT ![r].pc = "closed"]
  /\ lastAck' = IF req[r].op = "PATCH" /\ req[r].resp.status = 200
                THEN [key |-> getConversationKey(req[r].user, req[r].id),
                      message |-> req[r].added,
                      base |-> req[r].read.messages]
                ELSE lastAck
  /\ UNCHANGED <<now, redis, records, zsets, allocated, deletedSince>>
  /\ UNCHANGED <<lreq, chatVars>>

PairAddBodies == {[role |-> "user", content |-> "x"]}
PairUpdateBodies ==
  { [title |-> Some("T2"), messages |-> None],
    [title |-> None,
     messages |-> Some(<<[role |-> "assistant", content |-> "z",
                          timestamp |-> None]>>)] }

PairIdLists == {<<"c2", "c1">>}
PairCreateBodies ==
  {[title |-> "T", model |-> Some("m"), systemPrompt |-> Some("sp")]}

\* The store holds what earlier create requests of u1 left: c1, or c1 and c2.
InitPair ==
  /\ now = 0
  /\ redis = TRUE
  /\ \/ /\ records = Created(EmptyMap, "u1", "c1")
        /\ zsets = Indexed(EmptyMap, "u1", "c1")
        /\ allocated = {"c1"}
     \/ /\ records = Created(Created(EmptyMap, "u1", "c1"), "u1", "c2")
        /\ zsets = Indexed(Indexed(EmptyMap, "u1", "c1"), "u1", "c2")
        /\ allocated = {"c1", "c2"}
  /\ req = [r \in Reqs |-> IdleReq]
  /\ deletedSince = {}
  /\ lastAck = Null
  /\ lreq = IdleList
  /\ chatBody = PlainBody
  /\ cookie = None
  /\ chatUser = "u1"
  /\ backend = [start |-> "ok", units |-> <<>>, ending |-> "finish"]
  /\ ChatIdle

NextPair ==
  \/ \E r \in Reqs, c \in ConvIds, b \in PairAddBodies :
       PATCH_get(r, "u1", c, b)
  \/ \E r \in Reqs, c \in ConvIds, b \in PairUpdateBodies :
       PUT_get(r, "u1", c, b)
  \/ \E r \in Reqs : saveConversation_set(r)
  \/ \E r \in Reqs : saveConversation_zadd(r)
  \/ \E r \in Reqs, c \in ConvIds : DELETE_get(r, "u1", c)
  \/ \E r \in Reqs : DELETE_del(r)
  \/ \E r \in Reqs : DELETE_zrem(r)
  \/ \E r \in Reqs, b \in PairCreateBodies : POST_conversations(r, "u1", b)
  \/ \E r \in Reqs : POST_zadd(r)
  \/ \E r \in Reqs : POST_expire(r)
  \/ \E r \in Reqs, l \in PairIdLists : DELETE_conversations(r, "u1", l)
  \/ \E r \in Reqs : DELETE_many_del(r)
  \/ \E r \in Reqs : DELETE_many_zrem(r)
  \/ \E r \in Reqs : Returned(r)
  \/ Tick

SpecPair == InitPair /\ [][NextPair]_vars

\* ---- properties -----------------------------------------------------------------------
InIndex(userId, conversationId) ==
  /\ getUserConversationsKey(userId) \in DOMAIN zsets
  /\ conversationId \in DOMAIN zsets[getUserConversationsKey(userId)].members

HasRecord(userId, conversationId) ==
  getConversationKey(userId, conversationId) \in DOMAIN records

NoRequestInFlight == \A r \in Reqs : req[r].pc \in {"idle", "done", "closed"}

ReqKey(r) == getConversationKey(req[r].user, req[r].id)

Answered(r, op, status) ==
  /\ req[r].pc = "done"
  /\ req[r].op = op
  /\ req[r].resp.status = status

\* C1: whenever no request is in flight (after any sequence and interleaving of
\* create, append, replace, delete, deleteMany and TTL expiry), a conversation
\* id is in user U's recency index iff the record of (U, id) exists.
C1_IndexIffRecord ==
  NoRequestInFlight =>
    \A u \in Users, c \in ConvIds : InIndex(u, c) <=> HasRecord(u, c)

\* C2: append is a read-modify-write of the whole record.  The redis.set of an
\* append replaces the stored message list by the list the request read plus
\* its own message, whatever the record holds by then (so a message appended
\* by an overlapping request since the read is dropped), and the request then
\* answers with success.
C2_StaleAppendOverwrites ==
  [][\A r \in Reqs :
       /\ (req[r].op = "PATCH" /\ req[r].pc = "save_set"
             /\ req'[r].pc = "save_zadd")
          => records'[ReqKey(r)].val.messages
               = Append(req[r].read.messages, req[r].added)
       /\ (req[r].op = "PATCH" /\ req[r].pc = "save_zadd"
             /\ req'[r].pc = "done")
          => req'[r].resp.status = 200]_vars

\* Two appends that read the same list have both been answered with success,
\* and the stored list is that list plus only one of the two messages.
C2_LostUpdateReached ==
  \E r \in Reqs :
    /\ Answered(r, "PATCH", 200)
    /\ lastAck # Null
    /\ lastAck.key = ReqKey(r)
    /\ lastAck.base = req[r].read.messages
    /\ lastAck.message.content # req[r].added.content
    /\ ReqKey(r) \in DOMAIN records
    /\ Len(records[ReqKey(r)].val.messages) = Len(lastAck.base) + 1
    /\ \A i \in 1..Len(records[ReqKey(r)].val.messages) :
         records[ReqKey(r)].val.messages[i] # lastAck.message

\* C8: a get by U of an id that U has deleted, with no write of that record
\* since the delete, is answered 404.
C8_DeleteThenGetNotFound ==
  \A r \in Reqs :
    (req[r].pc = "done" /\ req[r].op = "GET" /\ req[r].sawDeleted)
      => req[r].resp.status = 404

\* A get answered 404 for a conversation that was created and, at time 0 (so
\* not expired), deleted.
C8_DeletedThenGot ==
  \E r \in Reqs :
    /\ Answered(r, "GET", 404)
    /\ req[r].sawDeleted
    /\ req[r].id \in allocated
    /\ redis
    /\ now = 0

\* C9: an append answered with success stores and returns the list it read
\* followed by exactly the new message: one message more, the prior messages
\* unchanged and in the same order.
C9_AppendGrowsByOne ==
  [][\A r \in Reqs :
       LET before == req[r].read.messages
       IN /\ (req[r].op = "PATCH" /\ req[r].pc = "save_set"
                /\ req'[r].pc = "save_zadd")
             => LET stored == records'[ReqKey(r)].val.messages
                IN /\ Len(stored) = Len(before) + 1
                   /\ SubSeq(stored, 1, Len(before)) = before
                   /\ stored[Len(stored)].content = req[r].added.content
          /\ (req[r].op = "PATCH" /\ req[r].pc = "save_zadd"
                /\ req'[r].pc = "done")
             => LET returned == req'[r].resp.data.conversation.messages
                IN /\ req'[r].resp.status = 200
                   /\ Len(returned) = Len(before) + 1
                   /\ SubSeq(returned, 1, Len(before)) = before
                   /\ returned[Len(returned)] = req[r].added
                   /\ req'[r].resp.data.addedMessage = req[r].added]_vars

\* An append on a conversation that already held a message was answered.
C9_AppendedToNonEmpty ==
  \E r \in Reqs :
    /\ Answered(r, "PATCH", 200)
    /\ Len(req[r].read.messages) >= 1
    /\ Len(req[r].resp.data.conversation.messages) = 2

\* C10: an append or replace that finds no record under the caller's key is
\* answered 404 and performs no Redis write.
C10_AbsentNotFound ==
  \A r \in Reqs :
    (req[r].op \in {"PATCH", "PUT"} /\ req[r].absent)
      => /\ req[r].pc = "done"
         /\ req[r].resp.status = 404
         /\ ~req[r].wrote

\* An append on an id without a record was answered while the store held
\* another conversation.
C10_AppendOnAbsent ==
  \E r \in Reqs :
    /\ Answered(r, "PATCH", 404)
    /\ req[r].absent
    /\ redis
    /\ records # EmptyMap

\* ---- properties of the store with the list endpoint -----------------------------------
ListAnswered == lreq.pc = "done" /\ lreq.resp.status = 200

RecordOf(userId, conversationId) ==
  RedisGet(records, getConversationKey(userId, conversationId))

IndexOf(userId) == Members(zsets, getUserConversationsKey(userId))

Ids(conversations) == [i \in 1..Len(conversations) |-> conversations[i].id]

Range(seq) == {seq[i] : i \in 1..Len(seq)}

\* the members of page that are in keep, in the order of page
Kept(page, keep) ==
  LET In(x) == x \in keep
  IN SelectSeq(page, In)

\* entries offset+1 .. offset+limit of the index
PageOf(index, limit, offset) ==
  SubSeq(index, offset + 1, Min(offset + limit, Len(index)))

\* C11: a request of user A is answered only with conversations of A, no step
\* of a request of A changes a record or the index of another user B (only
\* u1 issues requests, so apart from key expiry every step is a step of u1),
\* and a get, append, replace or delete of A on an id whose record belongs to
\* B and not to A is answered 404.
C11_UserIsolation ==
  /\ [](/\ \A r \in Reqs :
            (req[r].pc = "done" /\ "data" \in DOMAIN req[r].resp
               /\ "conversation" \in DOMAIN req[r].resp.data)
              => req[r].resp.data.conversation.userId = req[r].user
        /\ ListAnswered =>
             \A i \in 1..Len(lreq.resp.data.conversations) :
               lreq.resp.data.conversations[i].userId = lreq.user
        /\ \A r \in Reqs, c \in ConvIds :
            (/\ req[r].pc = "done"
             /\ req[r].op \in {"GET", "PATCH", "PUT", "DELETE"}
             /\ req[r].user = "u1" /\ req[r].id = c
             /\ ~req[r].long
             /\ HasRecord("u2", c) /\ ~HasRecord("u1", c))
              => req[r].resp.status = 404)
  /\ [][now' = now =>
          /\ \A c \in ConvIds : RecordOf("u2", c)' = RecordOf("u2", c)
          /\ IndexOf("u2")' = IndexOf("u2")]_vars

\* u1 has asked to delete c2 (of u2) and c1 (its own): one conversation was
\* deleted and the record and index entry of u2 are still there.
C11_OthersSurviveDeleteMany ==
  \E r \in Reqs :
    /\ Answered(r, "DELETEMANY", 200)
    /\ req[r].user = "u1"
    /\ req[r].resp.data.deletedCount = 1
    /\ HasRecord("u2", "c2")
    /\ InIndex("u2", "c2")
    /\ ~HasRecord("u1", "c1")

\* C12: with the store unconfigured, every store request of an identified
\* caller with a well-formed body (create, get, list, append, replace, delete,
\* deleteMany) is answered with success, never with an error.
C12_UnconfiguredSucceeds ==
  ~redis =>
    /\ \A r \in Reqs :
         (req[r].pc = "done" /\ req[r].resp.status \notin {400, 401})
           => req[r].resp.status = 200 /\ req[r].resp.success
    /\ (lreq.pc = "done" /\ lreq.resp.status # 401)
         => lreq.resp.status = 200 /\ lreq.resp.success

\* C13: a list answer holds at most limit conversations, they are the
\* conversations of the index entries offset+1 .. offset+limit (by descending
\* recency, as the index stood when the page was read), and hasMore is true
\* iff offset + limit < total.
C13_PageWithinLimit ==
  ListAnswered =>
    LET data == lreq.resp.data
        index == RevSorted(lreq.members)
    IN /\ Len(data.conversations) <= lreq.limit
       /\ Ids(data.conversations)
            = Kept(PageOf(index, lreq.limit, lreq.offset),
                   Range(Ids(data.conversations)))
       /\ data.hasMore <=> (lreq.offset + lreq.limit < data.total)

\* C14: the total of a list answer is the number of entries of the caller's
\* index at the time the handler last read the index.
C14_TotalIsCardinality ==
  ListAnswered => lreq.resp.data.total = lreq.card

\* C15: with no write between or during the list requests, the page at offset
\* k*limit holds exactly the existing conversations among the index entries
\* k*limit+1 .. (k+1)*limit, every existing conversation is an index entry (so
\* the pages together hold every existing conversation exactly once), and
\* hasMore is false exactly from the page that reaches the last entry on.
C15_PagesCoverAll ==
  (/\ ListAnswered
   /\ lreq.clean
   /\ NoRequestInFlight
   /\ lreq.limit >= 1
   /\ lreq.offset % lreq.limit = 0)
    => LET data == lreq.resp.data
           index == RevSorted(IndexOf(lreq.user))
           existing == {c \in ConvIds : HasRecord(lreq.user, c)}
       IN /\ existing \subseteq Range(index)
          /\ Ids(data.conversations)
               = Kept(PageOf(index, lreq.limit, lreq.offset), existing)
          /\ data.hasMore <=> (lreq.offset + lreq.limit < Len(index))

CountType(events, type) ==
  Cardinality({i \in 1..Len(events) : events[i].type = type})

IsTextChunk(e) == e.type = "text-chunk"

ChunkContents(events) ==
  LET chunks == SelectSeq(events, IsTextChunk)
  IN [i \in 1..Len(chunks) |-> chunks[i].content]

RECURSIVE Flatten(_)
Flatten(texts) ==
  IF texts = <<>> THEN <<>> ELSE Head(texts) \o Flatten(Tail(texts))

\* C3: when a streamed run has completed, exactly one conversation-finished
\* event has been written, it is the last event, and every event before it is
\* a text-chunk event.
C3_FinishedOnceLast ==
  sPhase = "finished" =>
    /\ CountType(written, "conversation-finished") = 1
    /\ written[Len(written)].type = "conversation-finished"
    /\ \A i \in 1..(Len(written) - 1) : written[i].type = "text-chunk"
    /\ Len(written) = Len(backend.units) + 1

C3_FinishedAfterChunks ==
  sPhase = "finished" /\ Len(written) >= 3

\* C4: when the backend has failed after streaming began (at least one
\* text-chunk event was written), exactly one error event has been written, it
\* is the last event, and no conversation-finished event has been written.
C4_ErrorEventOnFailure ==
  (sPhase = "failed" /\ sPos >= 1) =>
    /\ CountType(written, "error") = 1
    /\ CountType(written, "conversation-finished") = 0
    /\ written[Len(written)].type = "error"

\* C5: the text-chunk events written so far carry, one per unit and in the
\* backend's order, the units the backend has emitted so far.
C5_OneChunkPerUnit ==
  ChunkContents(written) = SubSeq(backend.units, 1, sPos)

C5_ThreeChunks ==
  /\ sPos = 3
  /\ CountType(written, "text-chunk") = 3
  /\ written[1].content # written[2].content

\* C6: for one backend run, the content of the buffered response equals the
\* concatenation, in order, of the contents of the streamed text-chunk events.
C6_BufferedEqualsConcat ==
  (sPhase = "finished" /\ bPhase = "done" /\ bResp.status = 200)
    => bResp.data.message.content = Flatten(ChunkContents(written))

C6_BothComplete ==
  /\ sPhase = "finished"
  /\ bPhase = "done"
  /\ bResp.status = 200
  /\ CountType(written, "text-chunk") >= 2
  /\ Len(bResp.data.message.content) >= 3

\* C7: a buffered request whose backend run did not complete is answered
\* success:false with status 500 and carries no generated content; a buffered
\* response with content carries the content of the complete run.
C7_NoPartialBuffered ==
  bPhase = "done" =>
    IF backend.start = "ok" /\ backend.ending = "finish"
    THEN /\ bResp.status = 200
         /\ bResp.data.message.content = Flatten(backend.units)
    ELSE /\ bResp.status = 500
         /\ bResp.success = FALSE
         /\ "data" \notin DOMAIN bResp

C7_FailedAfterPartialText ==
  /\ bPhase = "done"
  /\ backend.ending = "error"
  /\ bText # <<>>
  /\ bResp.status = 500


\* ---- properties of the chat request ------------------------------------------------------
Calls == {sCall, bCall} \ {Null}

Providers == {"openai", "anthropic", "google", "groq", "xai"}

\* the rule table, in the order of the rules
Rules ==
  << [provider |-> "openai", prefix |-> {"gpt-"}, part |-> {"openai"}],
     [provider |-> "anthropic", prefix |-> {"claude-"},
      part |-> {"anthropic"}],
     [provider |-> "google", prefix |-> {"gemini-"}, part |-> {"google"}],
     [provider |-> "groq", prefix |-> {}, part |-> {"llama", "groq"}],
     [provider |-> "xai", prefix |-> {}, part |-> {"grok", "xai"}] >>

RuleMatches(k, model) ==
  \/ Len(model) >= 1 /\ model[1] \in Rules[k].prefix
  \/ \E i \in 1..Len(model) : model[i] \in Rules[k].part

Matching(model) == {k \in 1..Len(Rules) : RuleMatches(k, model)}

C18_FirstRuleWins ==
  \A call \in Calls :
    /\ Matching(call.selectedModel) # {}
         => \E k \in Matching(call.selectedModel) :
              /\ \A j \in Matching(call.selectedModel) : k <= j
              /\ call.provider = Rules[k].provider
    /\ call.selectedModel = <<"claude-", "3-haiku-20240307">>
         => call.provider = "anthropic"
    /\ call.selectedModel = <<"some-", "llama", "-model">>
         => call.provider = "groq"

\* An id that holds llama (Groq rule) before anthropic (Anthropic rule) went
\* to Anthropic, the earlier rule.
C18_EarlierRuleChosen ==
  /\ sCall # Null
  /\ sCall.selectedModel = <<"llama", "anthropic">>
  /\ Matching(sCall.selectedModel) = {2, 4}
  /\ sCall.provider = "anthropic"

\* C19 as stated: for a non-empty history the messages given to the backend
\* are one system message, whose content is the systemPrompt of the request
\* if the request has one and the default persona otherwise, followed by the
\* caller's messages in their order.
C19_OverrideAsProvided ==
  \A call \in Calls :
    Len(chatBody.messages) >= 1
      => /\ Len(call.messages) = Len(chatBody.messages) + 1
         /\ call.messages[1].role = "system"
         /\ call.messages[1].content =
              IF chatBody.systemPrompt # None THEN chatBody.systemPrompt[1]
              ELSE SYSTEM_PROMPTS.default
         /\ \A i \in 1..Len(chatBody.messages) :
              /\ call.messages[i + 1].role = chatBody.messages[i].role
              /\ call.messages[i + 1].content = chatBody.messages[i].content

\* C19 amended: ... whose content is the systemPrompt of the request if the
\* request has a non-empty one, and the default persona otherwise (also for
\* the empty systemPrompt), followed by the caller's messages in their order.
C19_SystemMessagePrepended ==
  \A call \in Calls :
    Len(chatBody.messages) >= 1
      => /\ Len(call.messages) = Len(chatBody.messages) + 1
         /\ call.messages[1].role = "system"
         /\ call.messages[1].content =
              IF chatBody.systemPrompt \notin {None, Some("")}
              THEN chatBody.systemPrompt[1]
              ELSE SYSTEM_PROMPTS.default
         /\ \A i \in 1..Len(chatBody.messages) :
              /\ call.messages[i + 1].role = chatBody.messages[i].role
              /\ call.messages[i + 1].content = chatBody.messages[i].content

\* A history of three messages (one of them of role system) with an override
\* was handed on as four messages, the override first.
C19_OverridePrepended ==
  /\ bCall # Null
  /\ Len(chatBody.messages) = 3
  /\ chatBody.systemPrompt = Some("be brief")
  /\ Len(bCall.messages) = 4
  /\ bCall.messages[1] = [role |-> "system", content |-> "be brief"]
  /\ bCall.messages[2].role = "system"

\* C20: a request with an empty messages array is answered 400 and streamText
\* is not called for it.
C20_EmptyMessagesRejected ==
  chatBody.messages = <<>> =>
    /\ sPhase # "idle" => sResp.status = 400 /\ sCall = Null
    /\ bPhase # "idle" => bResp.status = 400 /\ bCall = Null

\* ---- properties of retention, deletion and failures ------------------------------------
\* C21: every record expires TTL (30 days) after its last write.  A stored
\* record carries the time of its last write (updatedAt) and its expiry is
\* that time plus TTL; the redis.set of a create, append or replace gives the
\* record the full TTL from the time of the write; a get or a step of a list
\* request leaves every record and its expiry as they are; a record whose TTL
\* has run out is not in the store, and a get is answered 200 only with a
\* record written less than TTL ago.
C21_SlidingRecordTTL ==
  /\ [](/\ \A key \in DOMAIN records :
            /\ records[key].exp = records[key].val.updatedAt + TTL
            /\ records[key].exp > now
        /\ \A r \in Reqs :
            Answered(r, "GET", 200)
              => /\ req[r].resp.data.conversation.updatedAt + TTL > now
                 /\ req[r].resp.data.conversation
                      = RecordOf(req[r].user, req[r].id))
  /\ [][/\ \A r \in Reqs :
            /\ (\/ req[r].pc = "save_set" /\ req'[r].pc = "save_zadd"
                \/ req[r].pc = "idle" /\ req'[r].pc = "create_zadd")
                 => /\ getConversationKey(req'[r].user, req'[r].conv.id)
                         \in DOMAIN records'
                    /\ records'[getConversationKey(req'[r].user,
                                                   req'[r].conv.id)].exp
                         = now + TTL
            /\ (req[r].pc = "idle" /\ req'[r].op = "GET")
                 => records' = records
         /\ lreq'.pc # lreq.pc => records' = records
         /\ \A key \in DOMAIN records' :
              (key \notin DOMAIN records \/ records'[key] # records[key])
                => records'[key].exp = now' + TTL]_vars

\* The record of c1, created at time 0, is in the store at time TTL: an append
\* at time 1 has reset its lifetime.
C21_AppendRenewed ==
  /\ now = TTL
  /\ HasRecord("u1", "c1")
  /\ RecordOf("u1", "c1").createdAt = 0
  /\ RecordOf("u1", "c1").updatedAt = 1
  /\ Len(RecordOf("u1", "c1").messages) >= 1
  /\ records[getConversationKey("u1", "c1")].exp = 1 + TTL

\* C22: a delete by id that finds the record removes it with redis.del and
\* then removes the id from the caller's index with redis.zrem, leaving every
\* other record and index entry as it is, and answers deleted: true; the
\* answer tells whether a record existed: 404 when the existence check found
\* none, deleted: false when redis.del removed none (or the store is
\* unconfigured), deleted: true when redis.del removed the record.
C22_DeleteRemovesBoth ==
  /\ [](\A r \in Reqs :
          (Answered(r, "DELETE", 200) /\ req[r].resp.data.deleted)
            => /\ ~InIndex(req[r].user, req[r].id)
               /\ HasRecord(req[r].user, req[r].id)
                    => \E q \in Reqs \ {r} : req[q].pc # "idle")
  /\ [][\A r \in Reqs :
          /\ (req[r].pc = "idle" /\ req'[r].op = "DELETE"
                /\ req'[r].pc = "done" /\ req'[r].resp.status # 401)
               => /\ records' = records /\ zsets' = zsets
                  /\ \/ /\ redis
                        /\ req'[r].resp.status = 404
                        /\ ~HasRecord(req'[r].user, req'[r].id)
                     \/ /\ ~redis
                        /\ req'[r].resp.status = 200
                        /\ ~req'[r].resp.data.deleted
                        /\ records = EmptyMap
          /\ (req[r].pc = "idle" /\ req'[r].pc = "delete_del")
               => HasRecord(req'[r].user, req'[r].id)
          /\ (req[r].pc = "delete_del" /\ req'[r].pc # "delete_del")
               => /\ ReqKey(r) \notin DOMAIN records'
                  /\ \A k \in (DOMAIN records) \ {ReqKey(r)} :
                       k \in DOMAIN records' /\ records'[k] = records[k]
                  /\ zsets' = zsets
                  /\ IF ReqKey(r) \in DOMAIN records
                     THEN req'[r].pc = "delete_zrem"
                     ELSE /\ req'[r].pc = "done"
                          /\ req'[r].resp.status = 200
                          /\ ~req'[r].resp.data.deleted
          /\ (req[r].pc = "delete_zrem" /\ req'[r].pc # "delete_zrem")
               => /\ req[r].id \notin DOMAIN IndexOf(req[r].user)'
                  /\ \A d \in (DOMAIN IndexOf(req[r].user)) \ {req[r].id} :
                       /\ d \in DOMAIN IndexOf(req[r].user)'
                       /\ IndexOf(req[r].user)'[d] = IndexOf(req[r].user)[d]
                  /\ records' = records
                  /\ req'[r].pc = "done"
                  /\ req'[r].resp.status = 200
                  /\ req'[r].resp.data.deleted]_vars

\* u1 holds c1 and c2; the delete of c1 was answered deleted: true: the
\* record and the index entry of c1 are gone, those of c2 are in place.
C22_OneOfTwoDeleted ==
  \E r \in Reqs :
    /\ Answered(r, "DELETE", 200)
    /\ req[r].resp.data.deleted
    /\ req[r].id = "c1"
    /\ ~HasRecord("u1", "c1")
    /\ ~InIndex("u1", "c1")
    /\ HasRecord("u1", "c2")
    /\ InIndex("u1", "c2")

\* the ids of a deleteMany request that were processed before the store failed
Processed(q) ==
  {q.asked[i] : i \in 1..(Len(q.asked) - Len(q.ids))}

\* record and index entry of (userId, c) are what they were in the store
\* `before`, but for key expiry
Untouched(before, userId, c) ==
  /\ RedisGet(records, getConversationKey(userId, c))
       = RedisGet(ExpireRecords(before.records, now),
                  getConversationKey(userId, c))
  /\ LET was == Members(ExpireZsets(before.zsets, now),
                        getUserConversationsKey(userId))
         is == IndexOf(userId)
     IN /\ c \in DOMAIN is <=> c \in DOMAIN was
        /\ c \in DOMAIN is => is[c] = was[c]

\* C23: deleteMany takes the ids one by one, counts an id when its redis.del
\* has removed a record (and its redis.zrem is done) and answers with that
\* count; when the store fails part-way (the request is answered 500), every
\* id processed before the failure has neither record nor index entry and
\* every other id of the request has the record and the index entry it had
\* when the request began.
C23_PartialDeleteMany ==
  /\ [](\A r \in Reqs :
          /\ (Answered(r, "DELETEMANY", 200) /\ redis)
               => req[r].resp.data.deletedCount = req[r].count
          /\ Answered(r, "DELETEMANY", 500)
               => /\ \A c \in Processed(req[r]) :
                       ~HasRecord(req[r].user, c) /\ ~InIndex(req[r].user, c)
                  /\ \A c \in Range(req[r].ids) \ Processed(req[r]) :
                       Untouched(req[r].before, req[r].user, c))
  /\ [][\A r \in Reqs :
          (req[r].pc \in {"many_del", "many_zrem"} /\ req'[r] # req[r]
             /\ now' = now /\ req'[r].resp.status # 500)
            => LET key == getConversationKey(req[r].user, Head(req[r].ids))
               IN IF req[r].pc = "many_del"
                  THEN /\ req'[r].count = req[r].count
                       /\ key \notin DOMAIN records'
                       /\ req'[r].pc = "many_zrem" <=> key \in DOMAIN records
                  ELSE /\ req'[r].count = req[r].count + 1
                       /\ Head(req[r].ids)
                            \notin DOMAIN IndexOf(req[r].user)']_vars

\* ---- properties of the requests as they are received ------------------------------------
\* the body of a request fails validation: it is not JSON or not of the schema
\* of its handler; a deleteMany names no ids
InvalidInput(q) ==
  IF q.op = "DELETEMANY" THEN q.asked = <<>>
  ELSE IF q.op \notin {"PATCH", "PUT", "POST"} THEN FALSE
  ELSE IF q.json = MalformedJson THEN TRUE
  ELSE IF q.op = "PATCH" THEN ~AddMessageSchema(q.json)
  ELSE IF q.op = "PUT" THEN ~UpdateConversationSchema(q.json)
  ELSE ~CreateConversationSchema(q.json)

FailureBody(resp) ==
  /\ resp.success = FALSE
  /\ "error" \in DOMAIN resp
  /\ resp.status \in {400, 401, 404, 500}

\* C24: every answer that is not a success has the body {success: false,
\* error} and one of the statuses 400, 401, 404, 500: 401 exactly when no user
\* is resolved; 400 exactly when an identified caller's input fails
\* validation (a body that is not JSON or not of the schema, no ids); 404 only
\* when the caller has no record of the id; 500 only for other failures.
C24_StatusPerKind ==
  /\ \A r \in Reqs :
       req[r].pc = "done" =>
         LET q == req[r]
         IN /\ q.resp.status # 200 => FailureBody(q.resp)
            /\ q.resp.status = 401 <=> q.user = NoUser
            /\ q.resp.status = 400 <=> (q.user # NoUser /\ InvalidInput(q))
            /\ q.resp.status = 404
                 => /\ q.op \in {"GET", "PATCH", "PUT", "DELETE"}
                    /\ ~HasRecord(q.user, q.id)
  /\ lreq.pc = "done" =>
       /\ lreq.resp.status # 200 => FailureBody(lreq.resp)
       /\ lreq.resp.status = 401 <=> lreq.user = NoUser
  /\ sPhase # "idle" =>
       /\ sResp.status # 200 => FailureBody(sResp)
       /\ sResp.status = 400 <=> ~ChatbotRequestSchema(chatBody)
  /\ bPhase = "done" =>
       /\ bResp.status # 200 => FailureBody(bResp)
       /\ bResp.status = 400 <=> ~ChatbotRequestSchema(chatBody)

\* input out of range, stated without the schemas
BadTitle(title) == Len(title) < 1 \/ Len(title) > 100

BadRoles(messages, allowed) ==
  \E i \in 1..Len(messages) : messages[i].role \notin allowed

OutOfRange(q) ==
  /\ q.op \in {"PATCH", "PUT", "POST"}
  /\ IF q.json = MalformedJson THEN TRUE
     ELSE IF q.op = "PATCH" THEN q.json.role \notin {"user", "assistant"}
     ELSE IF q.op = "POST" THEN BadTitle(q.json.title)
     ELSE \/ q.json.title # None /\ BadTitle(q.json.title[1])
          \/ /\ q.json.messages # None
             /\ BadRoles(q.json.messages[1], {"user", "assistant", "system"})

ChatOutOfRange(b) ==
  \/ b.temperature # None /\ (b.temperature[1] < 0 \/ b.temperature[1] > 2)
  \/ b.maxTokens # None /\ (b.maxTokens[1] < 1 \/ b.maxTokens[1] > 4000)
  \/ BadRoles(b.messages, {"user", "assistant", "system"})

\* C25: a request whose input is malformed or out of range (temperature
\* outside 0..2, maxTokens outside 1..4000, a role outside the allowed set, a
\* title outside 1..100 characters) is answered success: false at once, with
\* status 400 when it is a JSON body of an identified caller (every chat
\* request is): the handler has issued no store command, the store is as it
\* was, and streamText has not been called.
C25_RejectedBeforeCalls ==
  /\ [](/\ \A r \in Reqs :
            (req[r].pc \notin {"idle", "closed"} /\ OutOfRange(req[r]))
              => /\ req[r].pc = "done"
                 /\ req[r].resp.success = FALSE
                 /\ (req[r].user # NoUser /\ req[r].json # MalformedJson)
                      => req[r].resp.status = 400
                 /\ ~req[r].called
                 /\ ~req[r].wrote
        /\ ChatOutOfRange(chatBody)
             => /\ sPhase # "idle"
                     => /\ sPhase = "answered"
                        /\ sResp.status = 400
                        /\ sResp.success = FALSE
                        /\ sCall = Null
                        /\ written = <<>>
                /\ bPhase # "idle"
                     => /\ bPhase = "done"
                        /\ bResp.status = 400
                        /\ bResp.success = FALSE
                        /\ bCall = Null)
  /\ [][\A r \in Reqs :
          (req[r].pc = "idle" /\ req'[r].pc # "idle" /\ OutOfRange(req'[r]))
            => /\ records' = records
               /\ zsets' = zsets
               /\ allocated' = allocated]_vars

\* A replace with a title of 101 characters on the existing c1 and a chat
\* request with temperature 3 have both been answered 400, nothing called.
C25_BothRejected ==
  /\ Answered(1, "PUT", 400)
  /\ req[1].json.title = Some(LongTitle)
  /\ req[1].user = "u1"
  /\ ~req[1].called
  /\ HasRecord("u1", "c1")
  /\ RecordOf("u1", "c1").title = "T"
  /\ chatBody.temperature = Some(3)
  /\ sResp.status = 400
  /\ sCall = Null
  /\ bResp.status = 400
  /\ bCall = Null

\* What a handler that resolved no user id has done when it is seen again.
AnsweredUnauthorized ==
  /\ \A r \in Reqs :
       (req[r].pc \notin {"idle", "closed"} /\ req[r].user = NoUser)
         => (/\ req[r].pc = "done"
             /\ req[r].resp = Unauthorized
             /\ ~req[r].called
             /\ ~req[r].wrote)
  /\ (lreq.pc # "idle" /\ lreq.user = NoUser)
       => (/\ lreq.pc = "done"
           /\ lreq.resp = Unauthorized
           /\ ~lreq.called)

\* The step that receives a request of no user leaves the store as it was.
ReceivedUnauthorized ==
  /\ \A r \in Reqs :
       (req[r].pc = "idle" /\ req'[r].pc # "idle" /\ req'[r].user = NoUser)
         => (/\ records' = records
             /\ zsets' = zsets
             /\ allocated' = allocated)
  /\ (lreq.pc = "idle" /\ lreq'.pc # "idle" /\ lreq'.user = NoUser)
       => (records' = records /\ zsets' = zsets)

\* C26: a request to a conversation endpoint (list, create, get, replace,
\* append, delete, deleteMany) for which no user id is resolved is answered
\* 401 at once, whatever its body, id or parameters and whatever the store
\* holds: the handler has issued no store command and the store is as it was.
C26_UnauthorizedFirst ==
  []AnsweredUnauthorized /\ [][ReceivedUnauthorized]_vars

\* A replace by nobody with a body that is not JSON, on the id of an existing
\* conversation, was answered 401.
C26_NobodyReplaces ==
  /\ Answered(1, "PUT", 401)
  /\ req[1].user = NoUser
  /\ req[1].json = MalformedJson
  /\ ~req[1].called
  /\ redis
  /\ HasRecord("u1", "c1")

\* C27: the chat completion endpoint requires user authentication like the
\* conversation endpoints: a chat request for which no user id is resolved
\* is refused (401, or 400 when its body is invalid as well) and streamText
\* is not called for it, in the streaming and in the buffered mode.
C27_ChatRequiresUser ==
  chatUser = NoUser
    => (/\ sCall = Null
        /\ bCall = Null
        /\ (sPhase # "idle" => sResp.status \in {400, 401})
        /\ (bPhase # "idle" => bResp.status \in {400, 401}))

\* The message list create is stated to give: empty when no system prompt is
\* supplied, else one system message carrying the supplied prompt.
StatedSeed(systemPrompt, messages) ==
  IF systemPrompt = None
  THEN messages = <<>>
  ELSE /\ Len(messages) = 1
       /\ messages[1].role = "system"
       /\ messages[1].content = systemPrompt[1]

\* C29: a create answered with success returns a conversation whose id no
\* earlier nanoid() call returned, whose messages are empty when the body has
\* no systemPrompt and one system message with the supplied systemPrompt
\* otherwise, and which is stored: a get of that id by the same user at the
\* moment create answers returns that conversation.
C29_CreateStoresAndReturns ==
  /\ [](\A r \in Reqs :
          Answered(r, "POST", 200)
            => (/\ req[r].resp.data.conversation = req[r].conv
                /\ req[r].conv.id = req[r].id
                /\ StatedSeed(req[r].json.systemPrompt,
                              req[r].conv.messages)
                /\ getConversation(req[r].user, req[r].id) = req[r].conv))
  /\ [][\A r \in Reqs :
          (req[r].pc = "idle" /\ req'[r].op = "POST"
             /\ req'[r].conv # Null)
            => req'[r].conv.id \notin allocated]_vars

\* The title and the messages a replace with body `json` is stated to leave
\* in `conv`, given the record `read` it found.
Replaced(read, json, conv) ==
  /\ conv.title = (IF json.title = None THEN read.title ELSE json.title[1])
  /\ IF json.messages = None
     THEN conv.messages = read.messages
     ELSE /\ Len(conv.messages) = Len(json.messages[1])
          /\ \A i \in 1..Len(conv.messages) :
               /\ conv.messages[i].role = json.messages[1][i].role
               /\ conv.messages[i].content = json.messages[1][i].content

\* The saveConversation step of a replace writes the record it holds.
ReplaceWritten ==
  \A r \in Reqs :
    (req[r].op = "PUT" /\ req[r].pc = "save_set" /\ req'[r].pc # "save_set")
      => (/\ HasRecord(req[r].user, req[r].id)'
          /\ RecordOf(req[r].user, req[r].id)'.title = req'[r].conv.title
          /\ RecordOf(req[r].user, req[r].id)'.messages
               = req'[r].conv.messages)

\* C30: the conversation a replace (PUT) writes and returns has the supplied
\* title if one was supplied and the title it read otherwise, and has the
\* supplied messages, in the supplied order, if messages were supplied and
\* the messages it read otherwise.
C30_ReplaceOnlySupplied ==
  /\ [](\A r \in Reqs :
          (req[r].op = "PUT" /\ req[r].read # Null)
            => (/\ Replaced(req[r].read, req[r].json, req[r].conv)
                /\ Answered(r, "PUT", 200)
                     => req[r].resp.data.conversation = req[r].conv))
  /\ [][ReplaceWritten]_vars

\* A replace with only a title, of a conversation that had a message, was
\* answered: the record has the new title and still the message.
C30_TitleOnlyKeepsMessages ==
  \E r \in Reqs :
    /\ Answered(r, "PUT", 200)
    /\ req[r].json = [title |-> Some("T2"), messages |-> None]
    /\ Len(req[r].read.messages) = 1
    /\ req[r].read.title = "T"
    /\ HasRecord(req[r].user, req[r].id)
    /\ RecordOf(req[r].user, req[r].id).title = "T2"
    /\ RecordOf(req[r].user, req[r].id).messages = req[r].read.messages

\* The model id a chat request is stated to use: the model of the body when
\* it has one (a non-empty text), else the id saved in the cookie when the
\* cookie is there and parses, else gpt-4o-mini.  A cookie that parses to a
\* value without id names no model: the default is taken for it.
StatedModel(b, c) ==
  IF b.model # None /\ b.model[1] # <<>> THEN b.model[1]
  ELSE IF c # None /\ c[1].json /\ c[1].id # None THEN c[1].id[1]
  ELSE DEFAULT_MODELS.openai

\* C31: every chat request with a valid body is served with the model id of
\* its model field when present, else of the selectedModel cookie when
\* present and parseable, else gpt-4o-mini: streamText is called, and
\* getProvider was given that id.
C31_ModelPrecedence ==
  ChatbotRequestSchema(chatBody)
    => (/\ sPhase # "idle"
             => (sCall # Null
                   /\ sCall.selectedModel = StatedModel(chatBody, cookie))
        /\ bPhase # "idle"
             => (bCall # Null
                   /\ bCall.selectedModel = StatedModel(chatBody, cookie)))

\* ---- properties of two overlapping requests ------------------------------------
\* Request r was an append or a replace that was answered with success.
Wrote(r) ==
  /\ req[r].pc \in {"done", "closed"}
  /\ req[r].op \in {"PATCH", "PUT"}
  /\ req[r].resp.status = 200

\* C32: when two writes (append or replace) to different conversation ids
\* have both been answered, each conversation whose 30 days since its write
\* have not passed holds what its write saved, and its id is in the index of
\* its owner.
C32_DifferentIdsKeepWrites ==
  \A r \in Reqs : \A q \in Reqs :
    (/\ Wrote(r)
     /\ Wrote(q)
     /\ req[r].id # req[q].id
     /\ now < req[r].conv.updatedAt + TTL)
      => (/\ HasRecord(req[r].user, req[r].id)
          /\ RecordOf(req[r].user, req[r].id) = req[r].conv
          /\ req[r].id \in DOMAIN IndexOf(req[r].user))

\* ---- properties of the chat completion and the store -----------------------------
\* A step of a chat request: the handler, a callback or the buffered await.
ChatStep ==
  \/ sPhase' # sPhase
  \/ bPhase' # bPhase
  \/ sPos' # sPos
  \/ bPos' # bPos
  \/ written' # written

\* C33: no step of a chat completion request, streamed or buffered, with or
\* without the conversationId of a stored conversation, changes a record, an
\* index, the ids handed out or anything else of the conversation store.
C33_ChatLeavesStore ==
  [][ChatStep => /\ records' = records
                 /\ zsets' = zsets
                 /\ allocated' = allocated
                 /\ deletedSince' = deletedSince]_vars

\* The streamed and the buffered request for the stored conversation c1 have
\* both completed with text, and c1 has no message.
C33_CompletedForStored ==
  /\ chatBody.conversationId = Some("c1")
  /\ sPhase = "finished"
  /\ bPhase = "done"
  /\ bResp.status = 200
  /\ bResp.data.conversationId = Some("c1")
  /\ Len(bResp.data.message.content) >= 1
  /\ HasRecord("u1", "c1")
  /\ RecordOf("u1", "c1") = [Seeded EXCEPT !.id = "c1"]
  /\ "c1" \in DOMAIN IndexOf("u1")

\* C34: once a delete of an id has returned deleted = true, the record of
\* that id is absent and the id is not in the index of its owner, whatever
\* append or replace on that id was under way when the delete completed.
C34_DeletedStaysAbsent ==
  \A r \in Reqs :
    (/\ req[r].op = "DELETE"
     /\ req[r].pc = "closed"
     /\ req[r].resp.status = 200
     /\ req[r].resp.data.deleted)
      => (/\ ~HasRecord(req[r].user, req[r].id)
          /\ req[r].id \notin DOMAIN IndexOf(req[r].user))

\* The id c leaves the index of user u in this step.
RemovedFromIndex(u, c) ==
  /\ c \in DOMAIN IndexOf(u)
  /\ c \notin DOMAIN IndexOf(u)'

\* C35: an id leaves the index of a user only when the index key expires or
\* by the step of a delete or deleteMany request of that user whose own
\* redis.del, just before, removed the record of that id; a delete or
\* deleteMany whose redis.del found no record (never created, deleted by
\* another request, expired) leaves the index as it is.
C35_IndexEntryLeavesWithRecord ==
  [][\A c \in ConvIds :
       RemovedFromIndex("u1", c)
         => \/ now' # now
            \/ \E r \in Reqs :
                 /\ req'[r] # req[r]
                 /\ req[r].op \in {"DELETE", "DELETEMANY"}
                 /\ req[r].user = "u1"
                 /\ req[r].gone = c]_vars

\* A deleteMany of c2 and c1 has returned deletedCount 0: c1 had been deleted
\* by a delete that has not yet removed it from the index, where it still is.
C35_AbsentLeftInIndex ==
  \E r \in Reqs : \E q \in Reqs :
    /\ req[r].op = "DELETEMANY"
    /\ req[r].pc = "closed"
    /\ req[r].resp.status = 200
    /\ req[r].resp.data.deletedCount = 0
    /\ req[q].op = "DELETE"
    /\ req[q].pc = "delete_zrem"
    /\ req[q].id = "c1"
    /\ ~HasRecord("u1", "c1")
    /\ "c1" \in DOMAIN IndexOf("u1")

\* ---- properties of the listed items ------------------------------------------------
\* the ids of the page whose redis.get found a record, in the order of the page
FoundOnPage ==
  LET Found(i) == lreq.conversations[i] # Null
      Pick(i) == lreq.conversationIds[i]
      RECURSIVE From(_)
      From(i) == IF i > Len(lreq.conversationIds) THEN <<>>
                 ELSE IF Found(i) THEN <<Pick(i)>> \o From(i + 1)
                 ELSE From(i + 1)
  IN From(1)

\* C36: every item of a list answer is a record (never null) of the
\* requesting user, as redis.get found it, whose id is on the requested page
\* (entries offset+1 .. offset+limit of the index as it was read); the ids of
\* the page whose record was absent are left out and the items are in the
\* order of the page.
C36_ListedAreOnPage ==
  /\ [](ListAnswered =>
         LET data == lreq.resp.data
             page == PageOf(RevSorted(lreq.members), lreq.limit, lreq.offset)
         IN /\ \A i \in 1..Len(data.conversations) :
                 /\ data.conversations[i] # Null
                 /\ data.conversations[i].userId = lreq.user
                 /\ data.conversations[i].id \in Range(page)
            /\ Ids(data.conversations) = Kept(page, Range(FoundOnPage)))
  /\ [][\A i \in 1..Cardinality(ConvIds) :
          (lreq.pc = "list_get" /\ i \in lreq.pending
             /\ i \notin lreq'.pending /\ lreq'.pc # "idle")
            => lreq'.conversations[i]
                 = RecordOf(lreq.user, lreq.conversationIds[i])]_vars

\* ---- properties of the identity of a record -----------------------------------------
\* the fields of a conversation that only create sets
Identity(conversation) ==
  [id |-> conversation.id, userId |-> conversation.userId,
   model |-> conversation.model, createdAt |-> conversation.createdAt]

\* C37: the record stored under the key of user U and conversation id I has
\* id I and userId U; a step that finds the record of a key and leaves a
\* record under it leaves id, userId, model and createdAt as they were, and
\* the conversation an append or replace saves and returns has the id,
\* userId, model and createdAt of the conversation it read.
C37_IdentityKept ==
  /\ [](/\ \A u \in Users : \A c \in ConvIds :
            HasRecord(u, c) => /\ RecordOf(u, c).id = c
                               /\ RecordOf(u, c).userId = u
        /\ \A r \in Reqs :
            (req[r].op \in {"PATCH", "PUT"} /\ req[r].read # Null)
              => /\ Identity(req[r].conv) = Identity(req[r].read)
                 /\ req[r].conv.id = req[r].id
                 /\ req[r].conv.userId = req[r].user)
  /\ [][\A u \in Users : \A c \in ConvIds :
          (HasRecord(u, c) /\ HasRecord(u, c)')
            => Identity(RecordOf(u, c)') = Identity(RecordOf(u, c))]_vars

\* The conversation c2 that a create made at time 0 with model m has been
\* appended to after a tick: it is c2 of u1, of model m, created at 0.
C37_AppendedAfterCreate ==
  \E r \in Reqs :
    /\ Answered(r, "PATCH", 200)
    /\ req[r].id = "c2"
    /\ now = 1
    /\ HasRecord("u1", "c2")
    /\ RecordOf("u1", "c2").updatedAt = 1
    /\ Len(RecordOf("u1", "c2").messages) = 2
    /\ Identity(RecordOf("u1", "c2"))
         = [id |-> "c2", userId |-> "u1", model |-> "m", createdAt |-> 0]

\* ---- properties of the buffered response ----------------------------------------------
\* C38: the model field of a buffered chat response is the model id selected
\* for the request (the model of the body, else the id saved in the cookie,
\* else gpt-4o-mini), also when no rule of the router matches that id and
\* the backend was given gpt-4o-mini.
C38_ResponseNamesSelected ==
  (bPhase = "done" /\ bResp.status = 200)
    => /\ bResp.data.model = StatedModel(chatBody, cookie)
       /\ Matching(bResp.data.model) = {}
            => bCall.modelId = DEFAULT_MODELS.openai

\* A buffered request for the id my-my-, which no rule matches, ran on
\* gpt-4o-mini and its response names my-my-.
C38_UnresolvedNamed ==
  /\ bPhase = "done"
  /\ bResp.status = 200
  /\ chatBody.model = Some(<<"my-", "my-">>)
  /\ bResp.data.model = <<"my-", "my-">>
  /\ bCall.provider = "openai"
  /\ bCall.modelId = <<"gpt-", "4o-mini">>

====
